---- MODULE Spec2Model ----
(***************************************************************************)
(* A model of chesskitten's full-game analysis pipeline:                   *)
(*   - Engine (src/js/engine.js): the wrapper around the Stockfish worker, *)
(*     its line handler, its two request modes and its timers;             *)
(*   - ChessLogic, analyzeFullGame and the review screen's handlers        *)
(*     (src/js/chesslogic.js): the timeline, the debounced live            *)
(*     evaluation, runFullAnalysis and loadGame.                           *)
(* The worker itself (js/stockfish-worker.js) is the UCI oracle: it is     *)
(* modelled by what the protocol says it does with each command.           *)
(* JavaScript runs one handler at a time, so each handler is one action.   *)
(***************************************************************************)
EXTENDS Integers, Sequences, FiniteSets, TLC

\* ------------------------------------------------------------ bounds
\* Requests (evaluate or evalAsync calls) issued on the Engine in one run.
MaxReq == 3
\* Requests an arbitrary client of the Engine issues in one run.
MaxClientReq == 2
\* Gestures of the user (a game loaded, a navigation step, a depth chosen) in
\* one run of the review screen.
MaxGestures == 2
\* Progress lines the oracle emits for one search.
MaxInfo == 1
\* stop() calls the client issues directly in one run.
MaxStop == 1
\* Moves of a game whose cursor is walked.
MaxMoves == 4
\* Positions of one analysed game for which the stubbed oracle gives another
\* answer than its usual one.
MaxVaried == 1
\* Progress lines, and their depths, of a search whose lines come in any order.
MaxLines == 2
\* Lines of no known form the worker emits in one run.
MaxNoise == 1

Reqs == 1..MaxReq

\* ------------------------------------------------------------ state
VARIABLES
    \* Engine fields (engine.js:6-17)
    worker,           \* "null" | "ok": this.worker
    uciTimer,         \* the 500 ms timer of _init is pending
    ready,            \* this.ready
    currentBestMove,  \* this._currentBestMove ("" is null)
    currentPv,        \* this._currentPv, as its list of moves (NullPv is null)
    currentScore,     \* this._currentScore, in 1/100 pawn (a mate in N is N * 100); 0 is
                      \* null too: waitReady sets it to 0 before any result reads it
    currentDepth,     \* this._currentDepth
    currentIsMate,    \* this._currentIsMate
    resolveEval,      \* this._resolveEval: the request whose resolve is held, 0 is null
    isAsyncSearch,    \* this._isAsyncSearch
    evalTimeout,      \* this._evalTimeout: the request whose timer the handle names, 0 is null
    timers,           \* requests whose 10 s timer is installed and has neither fired nor been cleared
    polls,            \* each request's 200 ms readiness poll: "none" | "running" | "cleared"
    \* the channel and the oracle
    toWorker,         \* the bursts of commands posted and not yet read by the worker
    fromWorker,       \* lines emitted by the worker and not yet handled
    wFen,             \* the position the worker was last given
    wSearch,          \* the request whose 'go' started the search in progress, 0 when idle
    wInfo,            \* progress lines emitted for the search in progress
    wNoise,           \* lines emitted that _onMessage knows no form for
    \* the requests issued
    nextReq,          \* the next request id
    reqKind,          \* "none" | "evaluate" | "async"
    reqFen,           \* the position the request is about
    posted,           \* the request's 'position' and 'go' have been posted
    promise,          \* "none" | "pending" | "resolved"
    resolveCalls,     \* times the promise's resolve function was called
    resolvedBy,       \* "none" | "bestmove" | "timeout" | "info"
    resolvedTag,      \* the request whose search emitted the line that resolved it
    result,           \* the value the promise was resolved with
    stops,            \* stop() calls made by the client
    updates,          \* the arguments of the onUpdate calls made, in order
    \* ChessLogic fields (chesslogic.js:6-14)
    fens,             \* this.fens
    sans,             \* this.sans
    squares,          \* this.squares
    idx,              \* this.idx
    classifications,  \* this.classifications
    \* the review screen (chesslogic.js:1119-1226, 1399-1458, 1611-1619)
    isAnalyzing,      \* isAnalyzing
    evalDebounce,     \* the 200 ms timer of requestEval is pending
    autoTimers,       \* the 500 ms timers of loadGame that are pending, in order
    depthSel,         \* the value of the depth select
    btnRunAnalysis,   \* btnRunAnalysis.style.display: "none" | "flex"
    cache,            \* localStorage: the entries written by runFullAnalysis
    \* the run of analyzeFullGame in progress (its locals)
    aState,           \* "idle" | "await"
    aReq,             \* the request whose promise it awaits
    aDepth,           \* targetDepth
    aFens,            \* fens (the array captured at its start)
    aNumMoves,        \* numMoves
    aEvals,           \* evals
    aBestMoves,       \* bestMoves
    aAsked,           \* the positions it has requested, in order
    progress,         \* the onProgress calls of the run, in order: <<i, total>>
    \* what the handlers reported
    gestures,         \* gestures of the user so far
    loads,            \* loadGame calls made
    loadResult,       \* what the last loadPGN returned: "none" | "ok" | "failed"
    outcome,          \* how the last runFullAnalysis ended: "none" | "cached" | "published" | "failed"
    \* play mode (play.js:19-28)
    playEngine,       \* playEngine is not null: initPlayEngine has made the play Engine
    playLogic,        \* playLogic: the position on the play board
    isPlayerTurn,     \* isPlayerTurn
    playerColor,      \* playerColor
    isGameActive,     \* isGameActive
    playEvalDebounce, \* the 100 ms timer of requestLiveEval (evalDebounce) is pending
    botTimer,         \* a timer set to call makeBotMove is pending
    botReq            \* the request whose promise makeBotMove's callback awaits, 0 is none

engineVars == <<worker, uciTimer, ready, currentBestMove, currentPv, currentScore,
                currentDepth, currentIsMate, resolveEval, isAsyncSearch, evalTimeout,
                timers, polls, toWorker, fromWorker, wFen, wSearch, wInfo, nextReq, reqKind,
                reqFen, posted, promise, resolveCalls, resolvedBy, resolvedTag, result, stops,
                updates, wNoise>>

logicVars == <<fens, sans, squares, idx, classifications>>

appVars == <<isAnalyzing, evalDebounce, autoTimers, depthSel, btnRunAnalysis, cache, aState, aReq, aDepth,
             aFens, aNumMoves, aEvals, aBestMoves, aAsked, progress, gestures, loads,
             loadResult,
             outcome>>

playVars == <<playEngine, playLogic, isPlayerTurn, playerColor, isGameActive,
              playEvalDebounce, botTimer, botReq>>

vars == <<engineVars, logicVars, appVars, playVars>>

\* ------------------------------------------------------------ positions
\* A position is named by the moves that lead to it from the start position
\* (its FEN); White is to move after an even number of moves.  The move "m"
\* delivers checkmate, "s" stalemate, and "d" reaches a position that is drawn
\* by rule (game_over() is true of it and a transcript may still go on); "p"
\* is a promotion to a queen, "x" captures a bishop, "h" is a quiet move that
\* leaves a bishop of the mover to be captured, and any other move is a quiet
\* one.
StartFen == <<>>

Last(q) == q[Len(q)]

InCheckmate(fen) == fen # <<>> /\ Last(fen) = "m"

GameOver(fen) == fen # <<>> /\ Last(fen) \in {"m", "s", "d"}

WhiteToMove(fen) == Len(fen) % 2 = 0

\* ------------------------------------------------------------ lines and commands
\* A burst: the commands one handler posts, back to back, for request r.
Burst(cmds, r) == [cmds |-> cmds, req |-> r]

\* What a line of no known form carries where a progress line has its depth and score.
NoiseDepth == 9
NoiseScore == 77

Line(t, tag, d, s, m, pv, bm) ==
    [type |-> t, tag |-> tag, depth |-> d, score |-> s, mate |-> m, pv |-> pv, bm |-> bm]

\* The oracle answers deterministically per position.  Score is relative to
\* the side to move: White to move sees +0.30 with a pv, Black to move sees a
\* line without a pv; a finished game has no move.
OracleInfo(fen) ==
    IF WhiteToMove(fen)
    THEN [score |-> 30, mate |-> FALSE, pv |-> <<"e2e4", "e7e5">>]
    ELSE [score |-> 200, mate |-> TRUE, pv |-> <<>>]

OracleBest(fen) ==
    IF GameOver(fen) THEN "(none)"
    ELSE IF WhiteToMove(fen) THEN "e2e4" ELSE "e7e5"

\* this._currentPv when it is null: it is otherwise a non-empty list of moves.
NullPv == <<"null">>

NoResult == [depth |-> 0, score |-> 0, isMate |-> FALSE, bestMove |-> "", pv |-> NullPv]

\* The first token of a pv (pv.split(' ')[0]).
FirstToken(pv) == Head(pv)

CurrentResult ==
    [depth |-> currentDepth, score |-> currentScore, isMate |-> currentIsMate,
     bestMove |-> currentBestMove, pv |-> currentPv]

\* ------------------------------------------------------------ Engine
EngineInit ==
    /\ worker \in {"ok", "null"}
    /\ uciTimer = (worker = "ok")
    /\ ready = FALSE
    /\ currentBestMove = ""
    /\ currentPv = NullPv
    /\ currentScore = 0
    /\ currentDepth = 0
    /\ currentIsMate = FALSE
    /\ resolveEval = 0
    /\ isAsyncSearch = FALSE
    /\ evalTimeout = 0
    /\ timers = {}
    /\ polls = [r \in Reqs |-> "none"]
    /\ toWorker = <<>>
    /\ fromWorker = <<>>
    /\ wFen = StartFen
    /\ wSearch = 0
    /\ wInfo = 0
    /\ nextReq = 1
    /\ reqKind = [r \in Reqs |-> "none"]
    /\ reqFen = [r \in Reqs |-> StartFen]
    /\ posted = [r \in Reqs |-> FALSE]
    /\ promise = [r \in Reqs |-> "none"]
    /\ resolveCalls = [r \in Reqs |-> 0]
    /\ resolvedBy = [r \in Reqs |-> "none"]
    /\ resolvedTag = [r \in Reqs |-> 0]
    /\ result = [r \in Reqs |-> NoResult]
    /\ stops = 0
    /\ updates = <<>>
    /\ wNoise = 0

\* Calling a promise's resolve function (a second call changes nothing).
Resolved(r, how, tag, value) ==
    /\ resolveCalls' = [resolveCalls EXCEPT ![r] = @ + 1]
    /\ promise' = [promise EXCEPT ![r] = "resolved"]
    /\ resolvedBy' = [resolvedBy EXCEPT ![r] = IF promise[r] = "pending" THEN how ELSE @]
    /\ resolvedTag' = [resolvedTag EXCEPT ![r] = IF promise[r] = "pending" THEN tag ELSE @]
    /\ result' = [result EXCEPT ![r] = IF promise[r] = "pending" THEN value ELSE @]

NotResolved == UNCHANGED <<resolveCalls, promise, resolvedBy, resolvedTag, result>>

\* _init's timer: post 'uci' after 500 ms.
UciTimerFire ==
    /\ uciTimer
    /\ uciTimer' = FALSE
    /\ toWorker' = IF worker = "ok" THEN Append(toWorker, Burst(<<"uci">>, 0)) ELSE toWorker
    /\ UNCHANGED <<worker, ready, currentBestMove, currentPv, currentScore, currentDepth,
                   currentIsMate, resolveEval, isAsyncSearch, evalTimeout, timers, polls,
                   fromWorker, wFen, wSearch, wInfo, nextReq, reqKind, reqFen, posted, stops>>
    /\ NotResolved
    /\ UNCHANGED <<updates, wNoise, logicVars, appVars, playVars>>

\* A handler that takes the session for ready as soon as 'uciok' arrives.
OnUciokReady ==
    /\ ready' = TRUE
    /\ UNCHANGED <<toWorker, currentBestMove, currentPv, currentScore, currentDepth,
                   currentIsMate, resolveEval, isAsyncSearch, evalTimeout, timers, updates>>
    /\ NotResolved

\* _onMessage, line === 'uciok'
OnUciok ==
    /\ toWorker' = Append(toWorker, Burst(<<"isready">>, 0))
    /\ UNCHANGED <<ready, currentBestMove, currentPv, currentScore, currentDepth,
                   currentIsMate, resolveEval, isAsyncSearch, evalTimeout, timers, updates>>
    /\ NotResolved

\* _onMessage, line === 'readyok'
OnReadyok ==
    /\ ready' = TRUE
    /\ UNCHANGED <<toWorker, currentBestMove, currentPv, currentScore, currentDepth,
                   currentIsMate, resolveEval, isAsyncSearch, evalTimeout, timers, updates>>
    /\ NotResolved

\* The argument of onUpdate for a progress line: a line without a pv gives
\* bestMove '\u2014' and pv '' (written "-" and <<>> here).  tag is the search
\* the line came from, which the callback does not see.
Update(l) ==
    [tag |-> l.tag, depth |-> l.depth, score |-> l.score, isMate |-> l.mate,
     bestMove |-> IF l.pv # <<>> THEN FirstToken(l.pv) ELSE "-",
     pv |-> IF l.pv # <<>> THEN l.pv ELSE <<>>]

\* A progress-line handler that also resolves the pending promise.
OnInfoResolving(l) ==
    /\ currentDepth' = l.depth
    /\ currentScore' = l.score
    /\ currentIsMate' = l.mate
    /\ currentBestMove' = IF l.pv # <<>> THEN FirstToken(l.pv) ELSE currentBestMove
    /\ currentPv' = IF l.pv # <<>> THEN l.pv ELSE currentPv
    /\ IF isAsyncSearch /\ resolveEval # 0
       THEN /\ resolveEval' = 0
            /\ isAsyncSearch' = FALSE
            /\ Resolved(resolveEval, "info", l.tag,
                        [depth |-> l.depth, score |-> l.score, isMate |-> l.mate,
                         bestMove |-> currentBestMove', pv |-> currentPv'])
       ELSE /\ UNCHANGED <<resolveEval, isAsyncSearch>>
            /\ NotResolved
    /\ updates' = Append(updates, Update(l))
    /\ UNCHANGED <<toWorker, ready, evalTimeout, timers>>

\* _onMessage, a progress line (info ... depth d ... score cp|mate s ... pv ...):
\* the current* fields are updated and nothing is resolved.
OnInfo(l) ==
    /\ currentDepth' = l.depth
    /\ currentScore' = l.score
    /\ currentIsMate' = l.mate
    /\ currentBestMove' = IF l.pv # <<>> THEN FirstToken(l.pv) ELSE currentBestMove
    /\ currentPv' = IF l.pv # <<>> THEN l.pv ELSE currentPv
    /\ updates' = Append(updates, Update(l))
    /\ UNCHANGED <<toWorker, ready, resolveEval, isAsyncSearch, evalTimeout, timers>>
    /\ NotResolved

\* _onMessage, a 'bestmove' line.  keep = TRUE is the handler without its
\* "this._resolveEval = null; this._isAsyncSearch = false" lines.
OnBestmoveBody(l, keep) ==
    /\ currentBestMove' = IF l.bm # "" /\ l.bm # "(none)" THEN l.bm ELSE currentBestMove
    /\ IF isAsyncSearch /\ resolveEval # 0
       THEN /\ resolveEval' = IF keep THEN resolveEval ELSE 0
            /\ isAsyncSearch' = IF keep THEN isAsyncSearch ELSE FALSE
            /\ timers' = IF evalTimeout # 0 THEN timers \ {evalTimeout} ELSE timers
            /\ evalTimeout' = 0
            /\ Resolved(resolveEval, "bestmove", l.tag,
                        [depth |-> currentDepth, score |-> currentScore,
                         isMate |-> currentIsMate, bestMove |-> currentBestMove',
                         pv |-> currentPv])
       ELSE /\ UNCHANGED <<resolveEval, isAsyncSearch, timers, evalTimeout>>
            /\ NotResolved
    /\ UNCHANGED <<toWorker, ready, currentPv, currentScore, currentDepth, currentIsMate,
                   updates>>

OnBestmoveKeepsResolver(l) == OnBestmoveBody(l, TRUE)

OnBestmove(l) == OnBestmoveBody(l, FALSE)

\* The lines _onMessage has no form for: "object" is a message that is not a
\* string, "text" a string that passes none of its tests ('id name ...', a
\* progress line without ' score '), "info_nodepth" a progress line whose
\* depth is missing and "info_noscore" one with neither a cp nor a mate number.
Unrecognized == {"object", "text", "info_nodepth", "info_noscore"}

\* A handler that takes a line of no known form for a progress line.
OnUnchecked(l) == OnInfo(l)

\* _onMessage for a line of no known form: it returns (or falls through every
\* test) without an assignment, a post or a callback.
OnIgnored(l) ==
    /\ UNCHANGED <<toWorker, ready, currentBestMove, currentPv, currentScore, currentDepth,
                   currentIsMate, resolveEval, isAsyncSearch, evalTimeout, timers, updates>>
    /\ NotResolved

\* The worker's 'message' listener: _onMessage(e.data) for the next line.
OnMessage ==
    /\ fromWorker # <<>>
    /\ fromWorker' = Tail(fromWorker)
    /\ LET l == Head(fromWorker) IN
         CASE l.type = "uciok" -> OnUciok
           [] l.type = "readyok" -> OnReadyok
           [] l.type = "info" -> OnInfo(l)
           [] l.type = "bestmove" -> OnBestmove(l)
           [] l.type \in Unrecognized -> OnIgnored(l)
    /\ UNCHANGED <<worker, uciTimer, polls, wFen, wSearch, wInfo, wNoise, nextReq, reqKind,
                   reqFen, posted, stops>>
    /\ UNCHANGED <<logicVars, appVars, playVars>>

\* A search posted without interrupting the one before it.
SearchCommandsWithoutStop == <<"position", "go">>

\* The commands of a search, in the order they are posted.
SearchCommands == <<"stop", "position", "go">>

\* _doEval and the tail of waitReady: 'stop', 'position fen', 'go depth'.
PostSearch(r) ==
    /\ toWorker' = Append(toWorker, Burst(SearchCommands, r))
    /\ posted' = [posted EXCEPT ![r] = TRUE]

\* evaluate(fen, depth), as request r.
Evaluate(r, fen) ==
    /\ reqKind' = [reqKind EXCEPT ![r] = "evaluate"]
    /\ reqFen' = [reqFen EXCEPT ![r] = fen]
    /\ IF worker = "null"
       THEN UNCHANGED <<polls, toWorker, posted>>
       ELSE IF ~ready
            THEN /\ polls' = [polls EXCEPT ![r] = "running"]
                 /\ UNCHANGED <<toWorker, posted>>
            ELSE /\ PostSearch(r)
                 /\ UNCHANGED polls
    /\ UNCHANGED <<currentBestMove, currentPv, currentScore, currentDepth, currentIsMate,
                   resolveEval, isAsyncSearch, evalTimeout, timers>>
    /\ NotResolved

\* waitReady of evalAsync, for the promise of request r.
WaitReady(r) ==
    /\ isAsyncSearch' = TRUE
    /\ resolveEval' = r
    /\ currentBestMove' = ""
    /\ currentScore' = 0
    /\ currentIsMate' = FALSE
    /\ currentDepth' = 0
    /\ evalTimeout' = r
    /\ timers' = timers \cup {r}
    /\ PostSearch(r)
    /\ UNCHANGED currentPv

\* A waitReady that posts its search before the session is ready.
EvalAsyncEager(r, fen) ==
    /\ reqKind' = [reqKind EXCEPT ![r] = "async"]
    /\ reqFen' = [reqFen EXCEPT ![r] = fen]
    /\ promise' = [promise EXCEPT ![r] = "pending"]
    /\ UNCHANGED <<resolveCalls, resolvedBy, resolvedTag, result>>
    /\ WaitReady(r)
    /\ UNCHANGED polls

\* evalAsync(fen, depth), as request r: the promise's executor.
EvalAsync(r, fen) ==
    /\ reqKind' = [reqKind EXCEPT ![r] = "async"]
    /\ reqFen' = [reqFen EXCEPT ![r] = fen]
    /\ promise' = [promise EXCEPT ![r] = "pending"]
    /\ UNCHANGED <<resolveCalls, resolvedBy, resolvedTag, result>>
    /\ IF ~ready
       THEN /\ polls' = [polls EXCEPT ![r] = "running"]
            /\ UNCHANGED <<currentBestMove, currentPv, currentScore, currentDepth,
                           currentIsMate, resolveEval, isAsyncSearch, evalTimeout,
                           timers, toWorker, posted>>
       ELSE /\ WaitReady(r)
            /\ UNCHANGED polls

\* A tick of a readiness poll that finds the session ready (a tick that does
\* not changes nothing).
PollFire(r) ==
    /\ polls[r] = "running"
    /\ ready
    /\ polls' = [polls EXCEPT ![r] = "cleared"]
    /\ IF reqKind[r] = "evaluate"
       THEN /\ PostSearch(r)
            /\ UNCHANGED <<currentBestMove, currentPv, currentScore, currentDepth,
                           currentIsMate, resolveEval, isAsyncSearch, evalTimeout, timers>>
       ELSE WaitReady(r)
    /\ NotResolved
    /\ UNCHANGED <<worker, uciTimer, ready, fromWorker, wFen, wSearch, wInfo, nextReq,
                   reqKind, reqFen, stops>>
    /\ UNCHANGED <<updates, wNoise, logicVars, appVars, playVars>>

\* The 10 s timer installed by request t fires.
TimeoutFire(t) ==
    /\ t \in timers
    /\ timers' = timers \ {t}
    /\ IF resolveEval # 0
       THEN /\ resolveEval' = 0
            /\ isAsyncSearch' = FALSE
            /\ toWorker' = Append(toWorker, Burst(<<"stop">>, 0))
            /\ Resolved(resolveEval, "timeout", t, CurrentResult)
       ELSE /\ UNCHANGED <<resolveEval, isAsyncSearch, toWorker>>
            /\ NotResolved
    /\ UNCHANGED <<worker, uciTimer, ready, currentBestMove, currentPv, currentScore,
                   currentDepth, currentIsMate, evalTimeout, polls, fromWorker, wFen,
                   wSearch, wInfo, nextReq, reqKind, reqFen, posted, stops>>
    /\ UNCHANGED <<updates, wNoise, logicVars, appVars, playVars>>

\* stop()
Stop ==
    /\ toWorker' = IF worker = "ok" THEN Append(toWorker, Burst(<<"stop">>, 0)) ELSE toWorker

\* ------------------------------------------------------------ the oracle
\* The worker's state after one command: w is <<fen, search, info, lines>>.
WorkerCommand(w, cmd, r) ==
    CASE cmd = "uci" ->
           [w EXCEPT !.lines = Append(@, Line("uciok", 0, 0, 0, FALSE, <<>>, ""))]
      [] cmd = "isready" ->
           [w EXCEPT !.lines = Append(@, Line("readyok", 0, 0, 0, FALSE, <<>>, ""))]
      [] cmd = "stop" ->
           IF w.search # 0
           THEN [w EXCEPT !.lines = Append(@, Line("bestmove", w.search, 0, 0, FALSE, <<>>,
                                                   OracleBest(w.fen))),
                          !.search = 0, !.info = 0]
           ELSE w
      [] cmd = "position" -> [w EXCEPT !.fen = reqFen[r]]
      [] cmd = "go" -> [w EXCEPT !.search = r, !.info = 0]
      [] OTHER -> w

RECURSIVE WorkerRun(_, _, _)
WorkerRun(w, cmds, r) ==
    IF cmds = <<>> THEN w
    ELSE WorkerRun(WorkerCommand(w, Head(cmds), r), Tail(cmds), r)

\* The worker reads the next burst of commands.
WorkerRecv ==
    /\ toWorker # <<>>
    /\ toWorker' = Tail(toWorker)
    /\ LET b == Head(toWorker)
           w == WorkerRun([fen |-> wFen, search |-> wSearch, info |-> wInfo,
                           lines |-> <<>>], b.cmds, b.req)
       IN /\ wFen' = w.fen
          /\ wSearch' = w.search
          /\ wInfo' = w.info
          /\ fromWorker' = fromWorker \o w.lines
    /\ UNCHANGED <<worker, uciTimer, ready, currentBestMove, currentPv, currentScore,
                   currentDepth, currentIsMate, resolveEval, isAsyncSearch, evalTimeout,
                   timers, polls, nextReq, reqKind, reqFen, posted, stops>>
    /\ NotResolved
    /\ UNCHANGED <<updates, wNoise, logicVars, appVars, playVars>>

\* The search in progress reports its next depth.
WorkerInfo ==
    /\ wSearch # 0
    /\ wInfo < MaxInfo
    /\ wInfo' = wInfo + 1
    /\ LET p == OracleInfo(wFen) IN
         fromWorker' = Append(fromWorker,
                              Line("info", wSearch, wInfo + 1, p.score, p.mate, p.pv, ""))
    /\ UNCHANGED <<worker, uciTimer, ready, currentBestMove, currentPv, currentScore,
                   currentDepth, currentIsMate, resolveEval, isAsyncSearch, evalTimeout,
                   timers, polls, toWorker, wFen, wSearch, nextReq, reqKind, reqFen,
                   posted, stops>>
    /\ NotResolved
    /\ UNCHANGED <<updates, wNoise, logicVars, appVars, playVars>>

\* The worker emits a line of no known form; only a progress line carries a
\* depth, a score or a pv.
NoiseLine(t) ==
    CASE t = "info_nodepth" -> Line(t, 0, 0, NoiseScore, FALSE, <<"e2e4">>, "")
      [] t = "info_noscore" -> Line(t, 0, NoiseDepth, 0, FALSE, <<"e2e4">>, "")
      [] OTHER -> Line(t, 0, 0, 0, FALSE, <<>>, "")

WorkerNoise ==
    /\ worker = "ok"
    /\ wNoise < MaxNoise
    /\ wNoise' = wNoise + 1
    /\ \E t \in Unrecognized : fromWorker' = Append(fromWorker, NoiseLine(t))
    /\ UNCHANGED <<worker, uciTimer, ready, currentBestMove, currentPv, currentScore,
                   currentDepth, currentIsMate, resolveEval, isAsyncSearch, evalTimeout,
                   timers, polls, toWorker, wFen, wSearch, wInfo, nextReq, reqKind, reqFen,
                   posted, stops, updates>>
    /\ NotResolved
    /\ UNCHANGED <<logicVars, appVars, playVars>>

\* The search in progress reports a depth, whichever it reported before.
WorkerInfoAny ==
    /\ wSearch # 0
    /\ wInfo < MaxLines
    /\ wInfo' = wInfo + 1
    /\ \E d \in 1..MaxLines :
         LET p == OracleInfo(wFen) IN
           fromWorker' = Append(fromWorker,
                                Line("info", wSearch, d, p.score, p.mate, p.pv, ""))
    /\ UNCHANGED <<worker, uciTimer, ready, currentBestMove, currentPv, currentScore,
                   currentDepth, currentIsMate, resolveEval, isAsyncSearch, evalTimeout,
                   timers, polls, toWorker, wFen, wSearch, nextReq, reqKind, reqFen,
                   posted, stops>>
    /\ NotResolved
    /\ UNCHANGED <<updates, wNoise, logicVars, appVars, playVars>>

\* The search in progress reaches its depth.
WorkerDone ==
    /\ wSearch # 0
    /\ fromWorker' = Append(fromWorker,
                            Line("bestmove", wSearch, 0, 0, FALSE, <<>>, OracleBest(wFen)))
    /\ wSearch' = 0
    /\ wInfo' = 0
    /\ UNCHANGED <<worker, uciTimer, ready, currentBestMove, currentPv, currentScore,
                   currentDepth, currentIsMate, resolveEval, isAsyncSearch, evalTimeout,
                   timers, polls, toWorker, wFen, nextReq, reqKind, reqFen, posted, stops>>
    /\ NotResolved
    /\ UNCHANGED <<updates, wNoise, logicVars, appVars, playVars>>

\* A move the oracle may name in its terminating line that is not the first
\* move of the pv it reported last.
OtherBest == "g1f3"

\* The search in progress ends with the move of its last pv, with another
\* move, or with no move.
WorkerDoneAny ==
    /\ wSearch # 0
    /\ \E bm \in {OracleBest(wFen), OtherBest, "(none)"} :
         fromWorker' = Append(fromWorker, Line("bestmove", wSearch, 0, 0, FALSE, <<>>, bm))
    /\ wSearch' = 0
    /\ wInfo' = 0
    /\ UNCHANGED <<worker, uciTimer, ready, currentBestMove, currentPv, currentScore,
                   currentDepth, currentIsMate, resolveEval, isAsyncSearch, evalTimeout,
                   timers, polls, toWorker, wFen, nextReq, reqKind, reqFen, posted, stops>>
    /\ NotResolved
    /\ UNCHANGED <<updates, wNoise, logicVars, appVars, playVars>>

\* ------------------------------------------------------------ ChessLogic
\* The games that can be loaded (what load_pgn accepts), and a transcript it
\* rejects.
Games == { <<"a">>, <<"b", "m">> }

BadPgn == <<"?">>

Pgns == Games \cup {BadPgn}

\* history({verbose: true}): the squares, colour and piece of a move.
MoveSquares(san, color) ==
    CASE san = "a" -> IF color = "w" THEN [from |-> "e2", to |-> "e4", color |-> color, piece |-> "p"]
                                     ELSE [from |-> "e7", to |-> "e5", color |-> color, piece |-> "p"]
      [] san = "b" -> IF color = "w" THEN [from |-> "g1", to |-> "f3", color |-> color, piece |-> "n"]
                                     ELSE [from |-> "g8", to |-> "f6", color |-> color, piece |-> "n"]
      [] san = "p" -> IF color = "w" THEN [from |-> "e7", to |-> "e8", color |-> color, piece |-> "p"]
                                     ELSE [from |-> "e2", to |-> "e1", color |-> color, piece |-> "p"]
      [] san = "h" -> IF color = "w" THEN [from |-> "f1", to |-> "b5", color |-> color, piece |-> "b"]
                                     ELSE [from |-> "f8", to |-> "b4", color |-> color, piece |-> "b"]
      [] san = "x" -> IF color = "w" THEN [from |-> "a3", to |-> "b4", color |-> color, piece |-> "p"]
                                     ELSE [from |-> "a6", to |-> "b5", color |-> color, piece |-> "p"]
      [] OTHER     -> IF color = "w" THEN [from |-> "d1", to |-> "h5", color |-> color, piece |-> "q"]
                                     ELSE [from |-> "d8", to |-> "h4", color |-> color, piece |-> "q"]

ColorOfPly(i) == IF i % 2 = 1 THEN "w" ELSE "b"

\* The arrays loadPGN builds from the moves of a parsed game.
FensOf(moves) == [i \in 1..(Len(moves) + 1) |-> SubSeq(moves, 1, i - 1)]

SquaresOf(moves) == [i \in 1..Len(moves) |-> MoveSquares(moves[i], ColorOfPly(i))]

\* The timeline after reset().
ResetTimeline ==
    [fens |-> <<StartFen>>, sans |-> <<>>, squares |-> <<>>, idx |-> 0,
     classifications |-> <<>>]

\* load_pgn accepts a transcript whose every token is a move.
Parses(pgn) == \A i \in DOMAIN pgn : pgn[i] # "?"

\* loadPGN(pgn): the timeline it leaves and the value it returns.
LoadPGN(pgn) ==
    IF ~Parses(pgn)
    THEN [fens |-> ResetTimeline.fens, sans |-> ResetTimeline.sans,
          squares |-> ResetTimeline.squares, idx |-> ResetTimeline.idx,
          classifications |-> ResetTimeline.classifications, ok |-> FALSE]
    ELSE [fens |-> FensOf(pgn), sans |-> pgn, squares |-> SquaresOf(pgn),
          idx |-> Len(pgn), classifications |-> <<>>, ok |-> TRUE]

\* fen()
CurrentFen == fens[idx + 1]

\* ------------------------------------------------------------ the review screen
Depths == {12, 14}

AppInit ==
    /\ fens = ResetTimeline.fens
    /\ sans = ResetTimeline.sans
    /\ squares = ResetTimeline.squares
    /\ idx = ResetTimeline.idx
    /\ classifications = ResetTimeline.classifications
    /\ isAnalyzing = FALSE
    /\ evalDebounce = "none"
    /\ autoTimers = <<>>
    /\ depthSel = 14
    /\ btnRunAnalysis \in {"none", "flex"}   \* set by the page's markup
    /\ cache = {}
    /\ aState = "idle"
    /\ aReq = 0
    /\ aDepth = 0
    /\ aFens = <<>>
    /\ aNumMoves = 0
    /\ aEvals = <<>>
    /\ aBestMoves = <<>>
    /\ aAsked = <<>>
    /\ progress = <<>>
    /\ gestures = 0
    /\ loads = 0
    /\ loadResult = "none"
    /\ outcome = "none"

\* What the engine's actions leave alone when a handler of the screen calls
\* evaluate() or evalAsync().
EngineCallFrame ==
    UNCHANGED <<worker, uciTimer, ready, fromWorker, wFen, wSearch, wInfo, stops, updates,
                wNoise>>

EngineIdle == UNCHANGED engineVars

\* requestEval(): the value of evalDebounce it leaves.  A timer set by
\* loadGame's own refresh() is "load", any other is "nav".
RequestEval(kind) == IF isAnalyzing THEN evalDebounce ELSE kind

\* The 200 ms timer of requestEval fires: engine.evaluate(logic.fen(), 14).
DebounceFire ==
    /\ evalDebounce # "none"
    /\ nextReq <= MaxReq
    /\ evalDebounce' = "none"
    /\ nextReq' = nextReq + 1
    /\ Evaluate(nextReq, CurrentFen)
    /\ EngineCallFrame
    /\ UNCHANGED <<logicVars, isAnalyzing, autoTimers, depthSel, btnRunAnalysis, cache,
                   aState, aReq, aDepth, aFens, aNumMoves, aEvals, aBestMoves, aAsked, progress,
                   gestures, loads, loadResult, outcome, playVars>>

\* A navigation handler: the cursor moves, then refresh() calls requestEval().
Navigate(newIdx) ==
    /\ gestures < MaxGestures
    /\ gestures' = gestures + 1
    /\ idx' = newIdx
    /\ evalDebounce' = RequestEval("nav")
    /\ EngineIdle
    /\ UNCHANGED <<fens, sans, squares, classifications, isAnalyzing, autoTimers, depthSel,
                   btnRunAnalysis, cache, aState, aReq, aDepth, aFens, aNumMoves, aEvals, aBestMoves,
                   aAsked, progress, loads, loadResult, outcome, playVars>>

\* goStart(), goEnd(), goNext(), goPrev(), goTo(i): the cursor each leaves.
\* A goTo whose range test admits i = fens.length.
GoToIdxInclusive(i) == IF i >= 0 /\ i <= Len(fens) THEN i ELSE idx

GoStartIdx == 0

GoEndIdx == Len(fens) - 1

GoNextIdx == IF idx < Len(fens) - 1 THEN idx + 1 ELSE idx

GoPrevIdx == IF idx > 0 THEN idx - 1 ELSE idx

GoToIdx(i) == IF i >= 0 /\ i < Len(fens) THEN i ELSE idx

GoStart == Navigate(GoStartIdx)

GoEnd == Navigate(GoEndIdx)

GoNext == Navigate(GoNextIdx)

GoPrev == Navigate(GoPrevIdx)

\* ------------------------------------------------------------ analyzeFullGame
\* The pv of an evaluation that has none (the property is undefined).
UndefinedPv == <<"undefined">>

\* A synthesized evaluation that scores every checkmate for White.
TerminalEvalSideBlind(fen) ==
    [score |-> IF InCheckmate(fen) THEN 10000 ELSE 0,
     isMate |-> InCheckmate(fen), raw |-> 0, pv |-> UndefinedPv]

\* The evaluation synthesized for a finished game (chesslogic.js:201-213).
TerminalEval(fen) ==
    [score |-> IF InCheckmate(fen) THEN (IF WhiteToMove(fen) THEN -10000 ELSE 10000) ELSE 0,
     isMate |-> InCheckmate(fen), raw |-> 0, pv |-> UndefinedPv]

\* An evaluation that is recorded with the oracle's score as it came.
RawEval(fen, res) ==
    [score |-> res.score, isMate |-> res.isMate, raw |-> res.score,
     pv |-> IF res.pv = NullPv THEN <<>> ELSE res.pv]

\* The evaluation recorded for an oracle result (chesslogic.js:215-228); a
\* null pv is recorded as '' (<<>>).
NormalizedEval(fen, res) ==
    [score |-> IF WhiteToMove(fen) THEN res.score ELSE -res.score,
     isMate |-> res.isMate, raw |-> res.score,
     pv |-> IF res.pv = NullPv THEN <<>> ELSE res.pv]

\* A loop that asks the oracle about every position.
NeedsOracleAlways(fen) == TRUE

\* The position is not terminal: the loop asks the oracle about it.
NeedsOracle(fen) == ~GameOver(fen)

\* The evaluation loop from the state <<evals, bestMoves>> up to its next
\* await or its end: terminal positions are synthesized on the way.
RECURSIVE EvalLoop(_, _, _)
EvalLoop(fs, evals, bests) ==
    IF Len(evals) >= Len(fs) \/ NeedsOracle(fs[Len(evals) + 1])
    THEN [evals |-> evals, bests |-> bests]
    ELSE EvalLoop(fs, Append(evals, TerminalEval(fs[Len(evals) + 1])), Append(bests, ""))

\* An evaluation loop that reports no progress for the positions it does not
\* ask the oracle about.
LoopProgressSilent(fs, n, calls) == calls

\* The onProgress calls of the same stretch of the loop, after calls: n
\* positions are recorded, and each finished position that follows is recorded
\* and then reported as (i, fens.length).
RECURSIVE LoopProgress(_, _, _)
LoopProgress(fs, n, calls) ==
    IF n >= Len(fs) \/ NeedsOracle(fs[n + 1])
    THEN calls
    ELSE LoopProgress(fs, n + 1, Append(calls, <<n, Len(fs)>>))

\* first N half-moves considered book
BOOK_MOVES == 6

\* scoreBefore, scoreAfter: a mate score is collapsed to +100 or -100 pawns.
Collapsed(e) == IF e.isMate THEN (IF e.score > 0 THEN 10000 ELSE -10000) ELSE e.score

\* A loss computed as if White had made every move.
CpLossWhiteOnly(color, scoreBefore, scoreAfter) == scoreBefore - scoreAfter

\* cpLoss, from the mover's perspective.
CpLoss(color, scoreBefore, scoreAfter) ==
    IF color = "w" THEN scoreBefore - scoreAfter ELSE scoreAfter - scoreBefore

Abs(x) == IF x < 0 THEN -x ELSE x

\* The played move is the engine's best move (from + to === engineBest).
IsEngineBest(played, engineBest) ==
    engineBest # "" /\ (played.from \o played.to) = engineBest

\* A ladder that gives Inaccuracy before Good.
LadderGoodAfterInaccuracy(cpLoss) ==
    IF cpLoss <= -200 THEN "brilliant"
    ELSE IF cpLoss <= -100 THEN "great"
    ELSE IF cpLoss <= 40 THEN "best"
    ELSE IF cpLoss <= 120 THEN "inaccuracy"
    ELSE IF cpLoss <= 250 THEN "good"
    ELSE IF cpLoss <= 500 THEN "mistake"
    ELSE "blunder"

\* A ladder whose boundary values belong to the worse tier.
LadderExclusive(cpLoss) ==
    IF cpLoss < -200 THEN "brilliant"
    ELSE IF cpLoss < -100 THEN "great"
    ELSE IF cpLoss < 40 THEN "best"
    ELSE IF cpLoss < 120 THEN "good"
    ELSE IF cpLoss < 250 THEN "inaccuracy"
    ELSE IF cpLoss < 500 THEN "mistake"
    ELSE "blunder"

\* The threshold ladder on cpLoss (chesslogic.js:278-292).
Ladder(cpLoss) ==
    IF cpLoss <= -200 THEN "brilliant"
    ELSE IF cpLoss <= -100 THEN "great"
    ELSE IF cpLoss <= 40 THEN "best"
    ELSE IF cpLoss <= 120 THEN "good"
    ELSE IF cpLoss <= 250 THEN "inaccuracy"
    ELSE IF cpLoss <= 500 THEN "mistake"
    ELSE "blunder"

\* A book test that counts one half-move more.
IsBookInclusive(m, cpLoss) == m <= BOOK_MOVES /\ Abs(cpLoss) < 50

\* The book test, for the half-move of index m (from 0).
IsBook(m, cpLoss) == m < BOOK_MOVES /\ Abs(cpLoss) < 50

\* cls.key for the half-move of index m (from 0): the cascade of
\* chesslogic.js:264-292.
Tier(m, cpLoss, played, engineBest) ==
    IF IsBook(m, cpLoss) THEN "book"
    ELSE IF IsEngineBest(played, engineBest)
         THEN (IF cpLoss <= -200 THEN "brilliant"
               ELSE IF cpLoss <= -100 THEN "great"
               ELSE "best")
         ELSE Ladder(cpLoss)

\* What the board's material balance (White's piece values minus Black's)
\* gains for the mover by a move: a captured bishop is worth 3, a pawn that
\* becomes a queen 9 - 1.
MoveGain(san) ==
    CASE san = "x" -> 3
      [] san = "p" -> 8
      [] OTHER     -> 0

\* A balance to which every move adds what it gains, whoever made it.
RECURSIVE MaterialBalanceMoverBlind(_)
MaterialBalanceMoverBlind(fen) ==
    IF fen = <<>> THEN 0
    ELSE MaterialBalanceMoverBlind(SubSeq(fen, 1, Len(fen) - 1)) + MoveGain(Last(fen))

\* getMaterialBalance(fen): the balance of the start position is 0, and a
\* move changes it by what the mover gains.
RECURSIVE MaterialBalance(_)
MaterialBalance(fen) ==
    IF fen = <<>> THEN 0
    ELSE LET before == SubSeq(fen, 1, Len(fen) - 1) IN
         IF ColorOfPly(Len(fen)) = "w"
         THEN MaterialBalance(before) + MoveGain(Last(fen))
         ELSE MaterialBalance(before) - MoveGain(Last(fen))

\* matDiff: positive if the mover won material (chesslogic.js:297).
MatDiff(color, matBefore, matAfter) ==
    IF color = "w" THEN matAfter - matBefore ELSE -(matAfter - matBefore)

\* A missed_mate test that does not look at the evaluation after the move.
MissedMateBeforeOnly(color, evalBefore, evalAfter) ==
    IF color = "w" THEN evalBefore.isMate /\ evalBefore.score > 0
                   ELSE evalBefore.isMate /\ evalBefore.score < 0

\* The missed_mate test (chesslogic.js:328-331).
MissedMate(color, evalBefore, evalAfter) ==
    IF color = "w" THEN evalBefore.isMate /\ evalBefore.score > 0 /\ ~evalAfter.isMate
                   ELSE evalBefore.isMate /\ evalBefore.score < 0 /\ ~evalAfter.isMate

\* The letters of a move in coordinate notation (from square, to square and
\* the promotion piece, if any).
LettersOf(lan) ==
    CASE lan = "e2e4"  -> {"e", "2", "4"}
      [] lan = "e7e5"  -> {"e", "7", "5"}
      [] lan = "g1f3"  -> {"g", "1", "f", "3"}
      [] lan = "g8f6"  -> {"g", "8", "f", "6"}
      [] lan = "a6b5"  -> {"a", "6", "b", "5"}
      [] lan = "a3b4"  -> {"a", "3", "b", "4"}
      [] lan = "e7e8q" -> {"e", "7", "8", "q"}
      [] OTHER         -> {}

\* pv.includes(ch), for a pv that is a list of moves.
PvIncludes(pv, ch) == \E k \in 1..Len(pv) : ch \in LettersOf(pv[k])

\* The side to move at fen has already played san.
HasPlayed(fen, san) ==
    \E k \in 1..Len(fen) : fen[k] = san /\ ColorOfPly(k) = ColorOfPly(Len(fen) + 1)

\* tempGame.move({from, to, promotion}) on the position fen gives a move: the
\* pawn and knight moves the tokens a and b stand for, each once a side.
LegalLan(fen, lan) ==
    IF ColorOfPly(Len(fen) + 1) = "w"
    THEN \/ lan = "e2e4" /\ ~HasPlayed(fen, "a")
         \/ lan = "g1f3" /\ ~HasPlayed(fen, "b")
    ELSE \/ lan = "e7e5" /\ ~HasPlayed(fen, "a")
         \/ lan = "g8f6" /\ ~HasPlayed(fen, "b")

\* moveObj.san of a legal move.
SanOfLan(lan) ==
    CASE lan = "e2e4" -> "e4"
      [] lan = "e7e5" -> "e5"
      [] lan = "g1f3" -> "Nf3"
      [] lan = "g8f6" -> "Nf6"
      [] OTHER        -> lan

\* engineBestSan: the engine's move in SAN, or as it came if it cannot be
\* played on the position (chesslogic.js:299-315); "" is null.
EngineBestSan(fen, engineBest) ==
    IF engineBest # "" /\ LegalLan(fen, engineBest) THEN SanOfLan(engineBest) ELSE engineBest

\* engineBestSan.startsWith('N')
StartsWithN(s) == s \in {"Nf3", "Nf6"}

\* lan, played on the position fen, captures a piece: the bishop that the
\* last move left to be taken.
IsCaptureOn(fen, lan) ==
    /\ fen # <<>>
    /\ Last(fen) = "h"
    /\ lan = (IF ColorOfPly(Len(fen)) = "w" THEN "a6b5" ELSE "a3b4")

\* A fork test on the size of the swing, whoever it favours.
MissedForkEitherWay(engineBestSan, scoreBefore, scoreAfter) ==
    /\ engineBestSan # ""
    /\ StartsWithN(engineBestSan)
    /\ Abs(scoreBefore - scoreAfter) > 200

\* The missed_fork test (chesslogic.js:366-369).
MissedFork(engineBestSan, scoreBefore, scoreAfter) ==
    /\ engineBestSan # ""
    /\ StartsWithN(engineBestSan)
    /\ scoreBefore - scoreAfter > 200

\* The ignored_threat test (chesslogic.js:347-350): the pv is a non-empty
\* string with the letter x in it.
IgnoredThreat(evalAfter) ==
    /\ evalAfter.pv \notin {<<>>, UndefinedPv}
    /\ PvIncludes(evalAfter.pv, "x")

\* The trade tags (chesslogic.js:399-407); the scores are in 1/100 pawn, so
\* the code's 300 pawns are 30000.
TradeTags(san, color, scoreBefore, matDiff) ==
    IF Abs(matDiff) = 0 /\ san = "x"
    THEN (IF (color = "w" /\ scoreBefore < -30000) \/ (color # "w" /\ scoreBefore > 30000)
          THEN {"bad_trade"} ELSE {"allowed_trade"})
    ELSE {}

\* The tags of a half-move that follow from the move's capture mark, the
\* evaluations, the engine's move and the material balance
\* (chesslogic.js:320-407); the tags that are read off the piece letters of
\* the SAN, the phase and the pv before the move are not part of this model.
Tags(san, color, evalBefore, evalAfter, cpLoss, matDiff, engineBestSan) ==
    (IF san = "x" THEN {"is_capture"} ELSE {})
    \cup (IF MissedMate(color, evalBefore, evalAfter) THEN {"missed_mate"} ELSE {})
    \cup (IF cpLoss > 120
          THEN (IF matDiff <= -3 THEN {"hanging_piece"}
                ELSE IF matDiff < 0 THEN {"lost_material"} ELSE {})
               \cup (IF IgnoredThreat(evalAfter) THEN {"ignored_threat"} ELSE {})
               \cup (IF MissedFork(engineBestSan, Collapsed(evalBefore), Collapsed(evalAfter))
                     THEN {"missed_fork"} ELSE {})
               \cup TradeTags(san, color, Collapsed(evalBefore), matDiff)
          ELSE {})

\* COMMON_OPENINGS, cut to the entries on the line e4 e5 Nf3 Nc6 Bc4 Bc5 c3 Nf6
\* d4, which the game a b a b a b a b a stands for, and one entry off that
\* line; a prefix is the list of its moves.
COMMON_OPENINGS ==
    << [prefix |-> <<"a", "b", "a", "b", "a", "b", "a", "b", "a">>,
        name |-> "the Giuoco Piano, Main Line"],
       [prefix |-> <<"a", "b", "a", "b", "a", "b">>, name |-> "the Giuoco Piano"],
       [prefix |-> <<"a", "b", "a", "b", "a">>, name |-> "the Italian Game"],
       [prefix |-> <<"b">>, name |-> "the Zukertort Opening"],
       [prefix |-> <<"a", "b">>, name |-> "the Double King's Pawn Opening"] >>

\* bestMatch when no entry matches.
NullOpening == [prefix |-> <<>>, name |-> "null"]

\* moveStr.startsWith(op.prefix), on lists of moves.
StartsWith(moves, prefix) ==
    Len(prefix) <= Len(moves) /\ SubSeq(moves, 1, Len(prefix)) = prefix

\* The loop of getOpening from entry k on (chesslogic.js:173-178).
RECURSIVE LongestMatch(_, _, _)
LongestMatch(moves, k, bestMatch) ==
    IF k > Len(COMMON_OPENINGS) THEN bestMatch
    ELSE IF /\ StartsWith(moves, COMMON_OPENINGS[k].prefix)
            /\ Len(COMMON_OPENINGS[k].prefix) > Len(bestMatch.prefix)
         THEN LongestMatch(moves, k + 1, COMMON_OPENINGS[k])
         ELSE LongestMatch(moves, k + 1, bestMatch)

\* getOpening(sansPrefix)
GetOpening(sansPrefix) == LongestMatch(sansPrefix, 1, NullOpening)

\* One record of the classification loop, for move m (from 1): what it takes
\* from the captured evaluations and positions and what it takes from logic.
ClassifyMove(m, fs, evals, bests) ==
    LET scoreBefore == Collapsed(evals[m])
        scoreAfter == Collapsed(evals[m + 1])
        cpLoss == CpLoss(squares[m].color, scoreBefore, scoreAfter)
        matBefore == MaterialBalance(fs[m])
        matAfter == MaterialBalance(fs[m + 1])
        key == Tier(m - 1, cpLoss, squares[m], bests[m])
    IN [key |-> key,
        cpLoss |-> cpLoss, evalBefore |-> scoreBefore, evalAfter |-> scoreAfter,
        engineBest |-> bests[m], enginePv |-> evals[m].pv,
        from |-> squares[m].from, to |-> squares[m].to, piece |-> squares[m].piece,
        tags |-> Tags(sans[m], squares[m].color, evals[m], evals[m + 1], cpLoss,
                      MatDiff(squares[m].color, matBefore, matAfter),
                      EngineBestSan(fs[m], bests[m])),
        matBefore |-> matBefore, matAfter |-> matAfter,
        opening |-> IF key = "book" THEN GetOpening(SubSeq(sans, 1, m)) ELSE NullOpening]

\* The list analyzeFullGame returns.
Classified(fs, numMoves, evals, bests) ==
    [m \in 1..numMoves |-> ClassifyMove(m, fs, evals, bests)]

\* JSON.stringify and JSON.parse of a classification list: a member that is
\* undefined (only enginePv can be) is left out, every other member is kept.
\* The text is modelled as the list of each object's <<name, value>> members.
JsonStringify(list) ==
    [k \in DOMAIN list |->
        {<<f, list[k][f]>> :
            f \in {g \in DOMAIN list[k] : g = "enginePv" => list[k][g] # UndefinedPv}}]

JsonParse(text) ==
    [k \in DOMAIN text |->
        [f \in {p[1] : p \in text[k]} |-> (CHOOSE p \in text[k] : p[1] = f)[2]]]

CacheKey(depth, moves) == <<depth, moves>>

\* A cache that is never found to hold an entry.
CachedNever(key) == FALSE

\* localStorage.getItem(cacheKey) is truthy.
Cached(key) == \E e \in cache : e.key = key

CachedValue(key) == (CHOOSE e \in cache : e.key = key).val

\* The end of runFullAnalysis (its finally block): isAnalyzing = false and
\* requestEval().
FinishRun ==
    /\ isAnalyzing' = FALSE
    /\ evalDebounce' = "nav"

\* analyzeFullGame continues from <<evals, bests>>: it awaits the next
\* position's promise, or classifies and runFullAnalysis publishes.  cacheKey
\* was built when runFullAnalysis started, from the moves that lead to the
\* last of the positions captured then.
Continue(fs, numMoves, depth, evals, bests, asked, calls) ==
    LET st == EvalLoop(fs, evals, bests) IN
    IF Len(st.evals) < Len(fs)
    THEN \* await engine.evalAsync(fens[i], targetDepth)
         /\ nextReq <= MaxReq
         /\ nextReq' = nextReq + 1
         /\ EvalAsync(nextReq, fs[Len(st.evals) + 1])
         /\ EngineCallFrame
         /\ aState' = "await"
         /\ aReq' = nextReq
         /\ aEvals' = st.evals
         /\ aBestMoves' = st.bests
         /\ aAsked' = Append(asked, Len(st.evals))
         /\ progress' = LoopProgress(fs, Len(evals), calls)
         /\ isAnalyzing' = TRUE
         /\ UNCHANGED <<logicVars, evalDebounce, cache, outcome>>
    ELSE /\ aState' = "idle"
         /\ aReq' = 0
         /\ aEvals' = st.evals
         /\ aBestMoves' = st.bests
         /\ aAsked' = asked
         /\ progress' = LoopProgress(fs, Len(evals), calls)
         /\ EngineIdle
         /\ FinishRun
         /\ IF Len(squares) < numMoves
            THEN \* logic.squares[m] is undefined: playedMove.color throws
                 /\ outcome' = "failed"
                 /\ UNCHANGED <<logicVars, cache>>
            ELSE LET cls == Classified(fs, numMoves, st.evals, st.bests) IN
                 /\ classifications' = cls
                 /\ outcome' = "published"
                 /\ \E stored \in BOOLEAN :
                      cache' = IF stored /\ ~Cached(CacheKey(depth, Last(fs)))
                               THEN cache \cup {[key |-> CacheKey(depth, Last(fs)),
                                                 val |-> JsonStringify(cls)]}
                               ELSE cache
                 /\ UNCHANGED <<fens, sans, squares, idx>>

\* runFullAnalysis(), with the depth select at depth.
RunFullAnalysis(depth) ==
    IF isAnalyzing
    THEN /\ EngineIdle
         /\ UNCHANGED <<logicVars, isAnalyzing, evalDebounce, cache, aState, aReq, aDepth,
                        aFens, aNumMoves, aEvals, aBestMoves, aAsked, progress, outcome>>
    ELSE IF Cached(CacheKey(depth, sans))
         THEN /\ classifications' = JsonParse(CachedValue(CacheKey(depth, sans)))
              /\ outcome' = "cached"
              /\ FinishRun
              /\ EngineIdle
              /\ UNCHANGED <<fens, sans, squares, idx, cache, aState, aReq, aDepth, aFens,
                             aNumMoves, aEvals, aBestMoves, aAsked, progress>>
         ELSE /\ aFens' = fens
              /\ aNumMoves' = Len(sans)
              /\ aDepth' = depth
              /\ Continue(fens, Len(sans), depth, <<>>, <<>>, <<>>, <<>>)

\* The continuation of analyzeFullGame after the awaited promise resolved.
AnalysisResume ==
    /\ aState = "await"
    /\ promise[aReq] = "resolved"
    /\ LET fen == aFens[Len(aEvals) + 1]
           res == result[aReq]
       IN Continue(aFens, aNumMoves, aDepth,
                   Append(aEvals, NormalizedEval(fen, res)),
                   Append(aBestMoves, res.bestMove), aAsked,
                   Append(progress, <<Len(aEvals), Len(aFens)>>))
    /\ UNCHANGED <<autoTimers, depthSel, btnRunAnalysis, aFens, aNumMoves, aDepth,
                   gestures, loads, loadResult, playVars>>

\* loadGame(pgn, whiteName, blackName, autoAnalyze)
LoadGame(pgn, autoAnalyze) ==
    /\ gestures < MaxGestures
    /\ gestures' = gestures + 1
    /\ loads' = loads + 1
    /\ LET t == LoadPGN(pgn) IN
         /\ fens' = t.fens
         /\ sans' = t.sans
         /\ squares' = t.squares
         /\ idx' = t.idx
         /\ classifications' = t.classifications
         /\ loadResult' = IF t.ok THEN "ok" ELSE "failed"
         /\ IF t.ok
            THEN /\ evalDebounce' = RequestEval("load")
                 /\ btnRunAnalysis' = IF autoAnalyze THEN "none" ELSE "flex"
                 /\ autoTimers' = Append(autoTimers,
                                         IF autoAnalyze THEN "analysis" ELSE "eval")
            ELSE UNCHANGED <<evalDebounce, btnRunAnalysis, autoTimers>>
    /\ EngineIdle
    /\ UNCHANGED <<isAnalyzing, depthSel, cache, aState, aReq, aDepth, aFens, aNumMoves,
                   aEvals, aBestMoves, aAsked, progress, outcome>>
    /\ UNCHANGED playVars

\* A 500 ms timer of loadGame fires: runFullAnalysis() or requestEval().  The
\* 200 ms timer that the same loadGame call set fires first.
AutoTimerFire ==
    /\ autoTimers # <<>>
    /\ ~(evalDebounce = "load" /\ Len(autoTimers) = 1)
    /\ autoTimers' = Tail(autoTimers)
    /\ IF Head(autoTimers) = "analysis"
       THEN RunFullAnalysis(depthSel)
       ELSE /\ evalDebounce' = RequestEval("nav")
            /\ EngineIdle
            /\ UNCHANGED <<logicVars, isAnalyzing, cache, aState, aReq, aDepth, aFens,
                           aNumMoves, aEvals, aBestMoves, aAsked, progress, outcome>>
    /\ UNCHANGED <<depthSel, btnRunAnalysis, gestures, loads, loadResult, playVars>>

\* The depth select changes: runFullAnalysis() when a game is loaded and no
\* analysis is running.
DepthChange ==
    /\ gestures < MaxGestures
    /\ gestures' = gestures + 1
    /\ \E d \in Depths \ {depthSel} :
         /\ depthSel' = d
         /\ IF Len(fens) > 1 /\ ~isAnalyzing
            THEN RunFullAnalysis(d)
            ELSE /\ EngineIdle
                 /\ UNCHANGED <<logicVars, isAnalyzing, evalDebounce, cache, aState, aReq,
                                aDepth, aFens, aNumMoves, aEvals, aBestMoves, aAsked, progress, outcome>>
    /\ UNCHANGED <<autoTimers, btnRunAnalysis, loads, loadResult, playVars>>

\* A click on the run-analysis button, which can be clicked while it is shown.
RunAnalysisClick ==
    /\ btnRunAnalysis = "flex"
    /\ gestures < MaxGestures
    /\ gestures' = gestures + 1
    /\ btnRunAnalysis' = "none"
    /\ RunFullAnalysis(depthSel)
    /\ UNCHANGED <<autoTimers, depthSel, loads, loadResult, playVars>>

\* A click in the move list: goTo(i), then refresh().
GoTo == \E i \in 0..(Len(fens) - 1) : Navigate(GoToIdx(i))

\* A game is loaded from a pasted transcript or a fetched game (autoAnalyze)
\* or handed over from play mode (no autoAnalyze).
Load == \E pgn \in Pgns, autoAnalyze \in BOOLEAN : LoadGame(pgn, autoAnalyze)

\* The page after its scripts ran: a new Engine, a new ChessLogic.
\* play.js after the page's scripts ran: no game, no play Engine yet.
PlayInit ==
    /\ playEngine = FALSE
    /\ playLogic = StartFen
    /\ isPlayerTurn = TRUE
    /\ playerColor = "w"
    /\ isGameActive = FALSE
    /\ playEvalDebounce = FALSE
    /\ botTimer = FALSE
    /\ botReq = 0

Init == EngineInit /\ AppInit /\ PlayInit

\* ------------------------------------------------------------ a caller of ChessLogic
\* Any caller: loadPGN, reset and the cursor methods in any order, goTo with
\* any integer around the timeline.
RECURSIVE Transcripts(_)
Transcripts(n) ==
    IF n = 0 THEN {<<>>}
    ELSE {Append(t, x) : t \in Transcripts(n - 1), x \in {"a", "b", "?"}}

CursorPgns == UNION {Transcripts(n) : n \in 1..MaxMoves}

GoToArgs == (0 - 2)..(MaxMoves + 2)

CursorFrame == UNCHANGED <<engineVars, appVars, playVars>>

CallLoadPGN ==
    /\ \E pgn \in CursorPgns :
         LET t == LoadPGN(pgn) IN
           /\ fens' = t.fens
           /\ sans' = t.sans
           /\ squares' = t.squares
           /\ idx' = t.idx
           /\ classifications' = t.classifications
    /\ CursorFrame

CallReset ==
    /\ fens' = ResetTimeline.fens
    /\ sans' = ResetTimeline.sans
    /\ squares' = ResetTimeline.squares
    /\ idx' = ResetTimeline.idx
    /\ classifications' = ResetTimeline.classifications
    /\ CursorFrame

\* A cursor method that leaves the cursor at newIdx.
CallCursor(newIdx) ==
    /\ idx' = newIdx
    /\ UNCHANGED <<fens, sans, squares, classifications>>
    /\ CursorFrame

CallGoStart == CallCursor(GoStartIdx)

CallGoEnd == CallCursor(GoEndIdx)

CallGoNext == CallCursor(GoNextIdx)

CallGoPrev == CallCursor(GoPrevIdx)

CallGoTo == \E i \in GoToArgs : CallCursor(GoToIdx(i))

CursorNext ==
    \/ CallLoadPGN
    \/ CallReset
    \/ CallGoStart
    \/ CallGoEnd
    \/ CallGoNext
    \/ CallGoPrev
    \/ CallGoTo

SpecCursor == Init /\ [][CursorNext]_vars

\* ------------------------------------------------------------ analyzeFullGame on a stubbed oracle
\* analyzeFullGame(engine, logic, depth) where engine.evalAsync resolves at
\* once with a result the stub chooses; the stub leaves the result in the
\* Engine's _current* fields, as a resolved search does.
AnalyzerGames ==
    { <<"a", "b", "a", "b", "a", "b", "a", "b", "a">>, <<"a", "m">>, <<"a", "b", "m">>, <<"a", "s">>,
      <<"d", "a">>, <<"p">>, <<"h", "x">>,
      <<"a", "b", "a", "b", "a", "b", "m">> }

Scores ==
    LET pos == {40, 41, 49, 50, 99, 100, 120, 121, 199, 200, 250, 251, 500, 501}
    IN {0} \cup pos \cup {-x : x \in pos}

MateScores == {-300, -100, 100, 300}

StubBestMoves == {"", "e2e4", "e7e5", "e7e8q"}

StubPvs == {NullPv, <<"e2e4", "e7e5">>}

OracleResults ==
    {[depth |-> 12, score |-> x, isMate |-> FALSE, bestMove |-> b, pv |-> p] :
        x \in Scores, b \in StubBestMoves, p \in StubPvs}
    \cup
    {[depth |-> 12, score |-> x, isMate |-> TRUE, bestMove |-> b, pv |-> p] :
        x \in MateScores, b \in StubBestMoves, p \in StubPvs}

UsualResult ==
    [depth |-> 12, score |-> 0, isMate |-> FALSE, bestMove |-> "", pv |-> <<"e2e4", "e7e5">>]

\* Positions answered so far with another result than the usual one.
VariedSoFar ==
    Cardinality({i \in 1..Len(aEvals) :
                    /\ ~GameOver(aFens[i])
                    /\ <<aEvals[i], aBestMoves[i]>>
                          # <<NormalizedEval(aFens[i], UsualResult), UsualResult.bestMove>>})

StubFrame ==
    UNCHANGED <<worker, uciTimer, ready, resolveEval, isAsyncSearch, evalTimeout, timers, polls,
                toWorker, fromWorker, wFen, wSearch, wInfo, nextReq, reqKind, reqFen, posted,
                promise, resolveCalls, resolvedBy, resolvedTag, result, stops, updates,
                wNoise, evalDebounce, autoTimers, depthSel, btnRunAnalysis, gestures, loads,
                loadResult, playVars>>

\* analyzeFullGame from <<evals, bests>> to its next await or to its return,
\* whose value is assigned and cached as runFullAnalysis does.
StubContinue(fs, numMoves, depth, evals, bests, asked, calls) ==
    LET st == EvalLoop(fs, evals, bests) IN
    /\ progress' = LoopProgress(fs, Len(evals), calls)
    /\ aEvals' = st.evals
    /\ aBestMoves' = st.bests
    /\ IF Len(st.evals) < Len(fs)
       THEN /\ aState' = "await"
            /\ aAsked' = Append(asked, Len(st.evals))
            /\ isAnalyzing' = TRUE
            /\ UNCHANGED <<classifications, cache, outcome>>
       ELSE LET cls == Classified(fs, numMoves, st.evals, st.bests) IN
            /\ aState' = "idle"
            /\ aAsked' = asked
            /\ isAnalyzing' = FALSE
            /\ classifications' = cls
            /\ outcome' = "published"
            /\ cache' = cache \cup {[key |-> CacheKey(depth, Last(fs)),
                                      val |-> JsonStringify(cls)]}

\* A game of games is loaded and its analysis starts.
StubStartOf(games) ==
    /\ aState = "idle"
    /\ aFens = <<>>
    /\ \E g \in games :
         LET t == LoadPGN(g) IN
           /\ fens' = t.fens
           /\ sans' = t.sans
           /\ squares' = t.squares
           /\ idx' = t.idx
           /\ aFens' = t.fens
           /\ aNumMoves' = Len(t.sans)
           /\ aDepth' = depthSel
           /\ aReq' = 0
           /\ aState' = "await"
           /\ aEvals' = <<>>
           /\ aBestMoves' = <<>>
           /\ aAsked' = <<0>>
           /\ progress' = <<>>
           /\ isAnalyzing' = TRUE
           /\ UNCHANGED <<classifications, cache, outcome>>
    /\ UNCHANGED <<currentBestMove, currentPv, currentScore, currentDepth, currentIsMate>>
    /\ StubFrame

StubStart == StubStartOf(AnalyzerGames)

\* The awaited evalAsync resolves with a result of results, the stub's choice;
\* at most varied positions get another result than the usual one.
StubAnswerOf(results, varied) ==
    /\ aState = "await"
    /\ \E res \in results :
         /\ res = UsualResult \/ VariedSoFar < varied
         /\ currentDepth' = res.depth
         /\ currentScore' = res.score
         /\ currentIsMate' = res.isMate
         /\ currentBestMove' = res.bestMove
         /\ currentPv' = res.pv
         /\ StubContinue(aFens, aNumMoves, aDepth,
                         Append(aEvals, NormalizedEval(aFens[Len(aEvals) + 1], res)),
                         Append(aBestMoves, res.bestMove), aAsked,
                         Append(progress, <<Len(aEvals), Len(aFens)>>))
    /\ UNCHANGED <<fens, sans, squares, idx, aFens, aNumMoves, aDepth, aReq>>
    /\ StubFrame

StubAnswer == StubAnswerOf(OracleResults, MaxVaried)

AnalyzerNext ==
    \/ StubStart
    \/ StubAnswer

\* The page with its worker created and the run-analysis button hidden: the
\* stubbed analysis reads neither.
AnalyzerInit ==
    /\ Init
    /\ worker = "ok"
    /\ btnRunAnalysis = "none"

SpecAnalyzer == AnalyzerInit /\ [][AnalyzerNext]_vars

\* ------------------------------------------------------------ the tags of analyzeFullGame
\* Two-move games: a quiet one, and one in which White leaves a bishop to be
\* taken and Black takes it.
TagGames == {<<"a", "b">>, <<"h", "x">>}

TagScores == {0, 201, -350, 501}

TagBestMoves == {"", "g1f3", "g8f6"}

TagPvs == {<<"e2e4", "e7e5">>, <<"a6b5">>}

TagResults ==
    {[depth |-> 12, score |-> x, isMate |-> FALSE, bestMove |-> b, pv |-> p] :
        x \in TagScores, b \in TagBestMoves, p \in TagPvs}

\* Every position of a two-move game may get any result.
TagVaried == 3

TagStart == StubStartOf(TagGames)

TagAnswer == StubAnswerOf(TagResults, TagVaried)

\* loadGame of another game while analyzeFullGame awaits the oracle: loadPGN
\* replaces the timeline, the run goes on with the positions it captured.
TagReload ==
    /\ aState = "await"
    /\ fens = aFens
    /\ \E g \in TagGames :
         LET t == LoadPGN(g) IN
           /\ t.fens # fens
           /\ fens' = t.fens
           /\ sans' = t.sans
           /\ squares' = t.squares
           /\ idx' = t.idx
    /\ UNCHANGED <<classifications, cache, outcome, isAnalyzing, progress, aState, aReq,
                   aDepth, aFens, aNumMoves, aEvals, aBestMoves, aAsked>>
    /\ UNCHANGED <<currentBestMove, currentPv, currentScore, currentDepth, currentIsMate>>
    /\ StubFrame

TagNext ==
    \/ TagStart
    \/ TagAnswer

SpecTags == AnalyzerInit /\ [][TagNext]_vars

TradeNext ==
    \/ TagStart
    \/ TagAnswer
    \/ TagReload

SpecTrade == AnalyzerInit /\ [][TradeNext]_vars

\* ------------------------------------------------------------ a client of the Engine
\* Any caller: evaluate(), evalAsync() and stop() in any order.  The caller
\* walks a game: its r-th request is about the position after r - 1 moves.
ClientFen(r) == [i \in 1..(r - 1) |-> "a"]

CallEvaluate ==
    /\ nextReq <= MaxClientReq
    /\ nextReq' = nextReq + 1
    /\ Evaluate(nextReq, ClientFen(nextReq))
    /\ UNCHANGED <<worker, uciTimer, ready, fromWorker, wFen, wSearch, wInfo, stops>>
    /\ UNCHANGED <<updates, wNoise, logicVars, appVars, playVars>>

CallEvalAsync ==
    /\ nextReq <= MaxClientReq
    /\ nextReq' = nextReq + 1
    /\ EvalAsync(nextReq, ClientFen(nextReq))
    /\ UNCHANGED <<worker, uciTimer, ready, fromWorker, wFen, wSearch, wInfo, stops>>
    /\ UNCHANGED <<updates, wNoise, logicVars, appVars, playVars>>

CallStop ==
    /\ stops < MaxStop
    /\ stops' = stops + 1
    /\ Stop
    /\ UNCHANGED <<worker, uciTimer, ready, currentBestMove, currentPv, currentScore,
                   currentDepth, currentIsMate, resolveEval, isAsyncSearch, evalTimeout,
                   timers, polls, fromWorker, wFen, wSearch, wInfo, nextReq, reqKind,
                   reqFen, posted>>
    /\ NotResolved
    /\ UNCHANGED <<updates, wNoise, logicVars, appVars, playVars>>

EngineNext ==
    \/ UciTimerFire
    \/ OnMessage
    \/ \E r \in Reqs : PollFire(r)
    \/ \E t \in Reqs : TimeoutFire(t)
    \/ WorkerRecv
    \/ WorkerInfo
    \/ WorkerDone
    \/ CallEvaluate
    \/ CallEvalAsync
    \/ CallStop

SpecEngine == Init /\ [][EngineNext]_vars

\* The same client on a worker that also emits lines of no known form.
NoiseNext ==
    \/ UciTimerFire
    \/ OnMessage
    \/ \E r \in Reqs : PollFire(r)
    \/ \E t \in Reqs : TimeoutFire(t)
    \/ WorkerRecv
    \/ WorkerInfo
    \/ WorkerDone
    \/ WorkerNoise
    \/ CallEvaluate
    \/ CallEvalAsync
    \/ CallStop

SpecNoise == Init /\ [][NoiseNext]_vars

\* Fire-and-forget requests on a worker that reports depths in any order.
UnorderedNext ==
    \/ UciTimerFire
    \/ OnMessage
    \/ \E r \in Reqs : PollFire(r)
    \/ WorkerRecv
    \/ WorkerInfoAny
    \/ WorkerDone
    \/ CallEvaluate

SpecUnordered == Init /\ [][UnorderedNext]_vars

\* Single-shot requests on a worker whose terminating line names any move.
BestmoveNext ==
    \/ UciTimerFire
    \/ OnMessage
    \/ \E r \in Reqs : PollFire(r)
    \/ \E t \in Reqs : TimeoutFire(t)
    \/ WorkerRecv
    \/ WorkerInfo
    \/ WorkerDoneAny
    \/ CallEvalAsync

SpecBestmove == Init /\ [][BestmoveNext]_vars

\* The review screen on its Engine.  A promise's continuation is a microtask:
\* it runs before any other handler.
ResumeDue == aState = "await" /\ promise[aReq] = "resolved"

AppNext ==
    \/ AnalysisResume
    \/ ~ResumeDue /\ UciTimerFire
    \/ ~ResumeDue /\ OnMessage
    \/ ~ResumeDue /\ \E r \in Reqs : PollFire(r)
    \/ ~ResumeDue /\ \E t \in Reqs : TimeoutFire(t)
    \/ ~ResumeDue /\ WorkerRecv
    \/ ~ResumeDue /\ WorkerInfo
    \/ ~ResumeDue /\ WorkerDone
    \/ ~ResumeDue /\ Load
    \/ ~ResumeDue /\ GoStart
    \/ ~ResumeDue /\ GoEnd
    \/ ~ResumeDue /\ GoNext
    \/ ~ResumeDue /\ GoPrev
    \/ ~ResumeDue /\ GoTo
    \/ ~ResumeDue /\ DebounceFire
    \/ ~ResumeDue /\ AutoTimerFire
    \/ ~ResumeDue /\ DepthChange
    \/ ~ResumeDue /\ RunAnalysisClick

SpecApp == Init /\ [][AppNext]_vars

\* The Engine under the scheduling the browser guarantees: a timer that is set
\* fires, a posted message is delivered and handled.  Nothing makes the oracle
\* finish a search, and nothing makes a client call.
FairEngine ==
    /\ SpecEngine
    /\ WF_vars(UciTimerFire)
    /\ WF_vars(OnMessage)
    /\ WF_vars(WorkerRecv)
    /\ \A r \in Reqs : WF_vars(PollFire(r))
    /\ \A t \in Reqs : WF_vars(TimeoutFire(t))

\* ------------------------------------------------------------ games loaded for analysis
\* The page when every game is loaded with autoAnalyze (a pasted transcript
\* or a fetched game) and the user does nothing else.  The Engine does its
\* handshake; its searches are stubbed: an awaited evalAsync resolves with a
\* result the stub chooses, and evaluate() is not followed.
AutoGames == {<<"a">>, <<"h", "x">>}

\* What the stubbed steps leave alone in the Engine.
StubEngineFrame ==
    UNCHANGED <<worker, uciTimer, ready, resolveEval, isAsyncSearch, evalTimeout, timers, polls,
                toWorker, fromWorker, wFen, wSearch, wInfo, nextReq, reqKind, reqFen, posted,
                promise, resolveCalls, resolvedBy, resolvedTag, result, stops, updates,
                wNoise>>

StubLoadGame ==
    /\ \E g \in AutoGames : LoadGame(g, TRUE)
    /\ aReq' = aReq

\* The 200 ms timer of requestEval fires: engine.evaluate(logic.fen(), 14).
StubDebounceFire ==
    /\ evalDebounce # "none"
    /\ evalDebounce' = "none"
    /\ UNCHANGED <<engineVars, logicVars, isAnalyzing, autoTimers, depthSel, btnRunAnalysis,
                   cache, aState, aReq, aDepth, aFens, aNumMoves, aEvals, aBestMoves, aAsked,
                   progress, gestures, loads, loadResult, outcome, playVars>>

\* analyzeFullGame from <<evals, bests>> to its next await, or to its return
\* and the end of runFullAnalysis.
AutoContinue(fs, numMoves, depth, evals, bests, asked, calls) ==
    LET st == EvalLoop(fs, evals, bests) IN
    /\ progress' = LoopProgress(fs, Len(evals), calls)
    /\ aEvals' = st.evals
    /\ aBestMoves' = st.bests
    /\ IF Len(st.evals) < Len(fs)
       THEN /\ aState' = "await"
            /\ aAsked' = Append(asked, Len(st.evals))
            /\ isAnalyzing' = TRUE
            /\ UNCHANGED <<logicVars, evalDebounce, cache, outcome>>
       ELSE /\ aState' = "idle"
            /\ aAsked' = asked
            /\ FinishRun
            /\ IF Len(squares) < numMoves
               THEN /\ outcome' = "failed"
                    /\ UNCHANGED <<logicVars, cache>>
               ELSE LET cls == Classified(fs, numMoves, st.evals, st.bests) IN
                    /\ classifications' = cls
                    /\ outcome' = "published"
                    /\ cache' = cache \cup {[key |-> CacheKey(depth, Last(fs)),
                                              val |-> JsonStringify(cls)]}
                    /\ UNCHANGED <<fens, sans, squares, idx>>

\* The 500 ms timer of loadGame fires: runFullAnalysis().
StubTimerFire ==
    /\ autoTimers # <<>>
    /\ ~(evalDebounce = "load" /\ Len(autoTimers) = 1)
    /\ autoTimers' = Tail(autoTimers)
    /\ IF isAnalyzing
       THEN UNCHANGED <<logicVars, isAnalyzing, evalDebounce, cache, aState, aDepth, aFens,
                        aNumMoves, aEvals, aBestMoves, aAsked, progress, outcome>>
       ELSE IF Cached(CacheKey(depthSel, sans))
            THEN /\ classifications' = JsonParse(CachedValue(CacheKey(depthSel, sans)))
                 /\ outcome' = "cached"
                 /\ FinishRun
                 /\ UNCHANGED <<fens, sans, squares, idx, cache, aState, aDepth, aFens,
                                aNumMoves, aEvals, aBestMoves, aAsked, progress>>
            ELSE /\ aFens' = fens
                 /\ aNumMoves' = Len(sans)
                 /\ aDepth' = depthSel
                 /\ AutoContinue(fens, Len(sans), depthSel, <<>>, <<>>, <<>>, <<>>)
    /\ UNCHANGED <<currentBestMove, currentPv, currentScore, currentDepth, currentIsMate>>
    /\ StubEngineFrame
    /\ UNCHANGED <<aReq, depthSel, btnRunAnalysis, gestures, loads, loadResult, playVars>>

\* The awaited evalAsync resolves with the stub's result.
StubResume ==
    /\ aState = "await"
    /\ \E res \in {UsualResult, [UsualResult EXCEPT !.score = 201]} :
         /\ currentDepth' = res.depth
         /\ currentScore' = res.score
         /\ currentIsMate' = res.isMate
         /\ currentBestMove' = res.bestMove
         /\ currentPv' = res.pv
         /\ AutoContinue(aFens, aNumMoves, aDepth,
                         Append(aEvals, NormalizedEval(aFens[Len(aEvals) + 1], res)),
                         Append(aBestMoves, res.bestMove), aAsked,
                         Append(progress, <<Len(aEvals), Len(aFens)>>))
    /\ StubEngineFrame
    /\ UNCHANGED <<autoTimers, depthSel, btnRunAnalysis, aFens, aNumMoves, aDepth, aReq,
                   gestures, loads, loadResult, playVars>>

AutoNext ==
    \/ UciTimerFire
    \/ WorkerRecv
    \/ OnMessage
    \/ StubLoadGame
    \/ StubDebounceFire
    \/ StubTimerFire
    \/ StubResume

\* Under the scheduling the browser guarantees: timers fire, messages are
\* delivered and handled, and an evalAsync promise is resolved, by the
\* oracle's answer or by the 10 s timer.  Nothing makes the user load a game.
FairAuto ==
    /\ AnalyzerInit
    /\ [][AutoNext]_vars
    /\ WF_vars(UciTimerFire)
    /\ WF_vars(WorkerRecv)
    /\ WF_vars(OnMessage)
    /\ WF_vars(StubDebounceFire)
    /\ WF_vars(StubTimerFire)
    /\ WF_vars(StubResume)

\* ------------------------------------------------------------ play mode
\* play.js: the player and the bot on one board, one play Engine.  The
\* player's moves are the quiet moves a and b; the games followed do not end
\* on the board, and a game handed over for review (endGameAndReview) is not
\* followed into the review screen.
PlayerMoves == {"a", "b"}

\* The player is followed for MaxPlies moves of the game; the oracle of this
\* model knows the first move of each side.
MaxPlies == 1

\* playLogic.turn()
Turn(fen) == ColorOfPly(Len(fen) + 1)

\* The move of the timeline that a legal move in coordinate notation is.
TokenOfLan(lan) == IF lan \in {"e2e4", "e7e5"} THEN "a" ELSE "b"

\* playLogic after playLogic.move({from, to, promotion}) of lan: a move
\* that is not legal leaves the position as it is (move() returns null).
AfterMove(fen, lan) == IF LegalLan(fen, lan) THEN Append(fen, TokenOfLan(lan)) ELSE fen

\* requestLiveEval(): whether the 100 ms timer is pending after it.
RequestLiveEval(active, playerTurn, fen, color, pending) ==
    IF ~active THEN pending
    ELSE IF ~playerTurn /\ Turn(fen) # color THEN FALSE
    ELSE TRUE

\* The callback of makeBotMove's promise is due (a microtask).
BotResumeDue == botReq # 0 /\ promise[botReq] = "resolved"

\* The click on the start button; the game followed is the first one.
StartGame ==
    /\ ~playEngine
    /\ playEngine' = TRUE
    /\ \E c \in {"w", "b"} :
         /\ playerColor' = c
         /\ playLogic' = StartFen
         /\ isPlayerTurn' = (c = "w")
         /\ isGameActive' = TRUE
         /\ playEvalDebounce' = RequestLiveEval(TRUE, c = "w", StartFen, c, playEvalDebounce)
         /\ botTimer' = (c # "w")
    /\ UNCHANGED <<botReq, engineVars, logicVars, appVars>>

\* The 100 ms timer of requestLiveEval fires: playEngine.evaluate(fen, 10).
LiveEvalFire ==
    /\ playEvalDebounce
    /\ nextReq <= MaxReq
    /\ playEvalDebounce' = FALSE
    /\ nextReq' = nextReq + 1
    /\ Evaluate(nextReq, playLogic)
    /\ EngineCallFrame
    /\ UNCHANGED <<playEngine, playLogic, isPlayerTurn, playerColor, isGameActive, botTimer,
                   botReq, logicVars, appVars>>

\* The player drops a piece on a square it can legally move to (onDragStart
\* lets the player pick up a piece of their colour on their turn only).
OnDrop ==
    /\ isGameActive
    /\ isPlayerTurn
    /\ Turn(playLogic) = playerColor
    /\ Len(playLogic) < MaxPlies
    /\ \E mv \in PlayerMoves :
         /\ ~HasPlayed(playLogic, mv)
         /\ playLogic' = Append(playLogic, mv)
         /\ isPlayerTurn' = FALSE
         /\ playEvalDebounce' = RequestLiveEval(isGameActive, FALSE, Append(playLogic, mv),
                                                playerColor, playEvalDebounce)
         /\ botTimer' = TRUE
    /\ UNCHANGED <<playEngine, playerColor, isGameActive, botReq, engineVars, logicVars,
                   appVars>>

\* makeBotMove's setOption and evalAsync for request r: 'setoption' is
\* posted to the worker, then evalAsync as in EvalAsync.
BotRequest(r, fen) ==
    /\ reqKind' = [reqKind EXCEPT ![r] = "async"]
    /\ reqFen' = [reqFen EXCEPT ![r] = fen]
    /\ promise' = [promise EXCEPT ![r] = "pending"]
    /\ UNCHANGED <<resolveCalls, resolvedBy, resolvedTag, result>>
    /\ IF ~ready
       THEN /\ polls' = [polls EXCEPT ![r] = "running"]
            /\ toWorker' = IF worker = "ok"
                           THEN Append(toWorker, Burst(<<"setoption">>, 0)) ELSE toWorker
            /\ UNCHANGED <<currentBestMove, currentPv, currentScore, currentDepth,
                           currentIsMate, resolveEval, isAsyncSearch, evalTimeout,
                           timers, posted>>
       ELSE /\ isAsyncSearch' = TRUE
            /\ resolveEval' = r
            /\ currentBestMove' = ""
            /\ currentScore' = 0
            /\ currentIsMate' = FALSE
            /\ currentDepth' = 0
            /\ evalTimeout' = r
            /\ timers' = timers \cup {r}
            /\ toWorker' = toWorker \o <<Burst(<<"setoption">>, 0), Burst(SearchCommands, r)>>
            /\ posted' = [posted EXCEPT ![r] = TRUE]
            /\ UNCHANGED <<currentPv, polls>>

\* A timer set to call makeBotMove fires.
BotTimerFire ==
    /\ botTimer
    /\ botTimer' = FALSE
    /\ IF ~isGameActive \/ GameOver(playLogic)
       THEN UNCHANGED <<botReq, engineVars>>
       ELSE /\ nextReq <= MaxReq
            /\ nextReq' = nextReq + 1
            /\ botReq' = nextReq
            /\ BotRequest(nextReq, playLogic)
            /\ EngineCallFrame
    /\ UNCHANGED <<playEngine, playLogic, isPlayerTurn, playerColor, isGameActive,
                   playEvalDebounce, logicVars, appVars>>

\* The callback of makeBotMove's promise, with data the resolved value.
BotResume ==
    /\ BotResumeDue
    /\ botReq' = 0
    /\ LET data == result[botReq] IN
         IF isGameActive /\ data.bestMove # ""
         THEN /\ playLogic' = AfterMove(playLogic, data.bestMove)
              /\ isPlayerTurn' = TRUE
              /\ playEvalDebounce' = RequestLiveEval(TRUE, TRUE, AfterMove(playLogic, data.bestMove),
                                                     playerColor, playEvalDebounce)
              /\ isGameActive' = ~GameOver(AfterMove(playLogic, data.bestMove))
         ELSE UNCHANGED <<playLogic, isPlayerTurn, playEvalDebounce, isGameActive>>
    /\ UNCHANGED <<playEngine, playerColor, botTimer, engineVars, logicVars, appVars>>

\* The click on the resign button, confirmed: endGameAndReview().
Resign ==
    /\ isGameActive
    /\ ~GameOver(playLogic)
    /\ isGameActive' = FALSE
    /\ UNCHANGED <<playEngine, playLogic, isPlayerTurn, playerColor, playEvalDebounce,
                   botTimer, botReq, engineVars, logicVars, appVars>>

PlayNext ==
    \/ BotResume
    \/ ~BotResumeDue /\ StartGame
    \/ ~BotResumeDue /\ playEngine /\ UciTimerFire
    \/ ~BotResumeDue /\ playEngine /\ OnMessage
    \/ ~BotResumeDue /\ playEngine /\ \E r \in Reqs : PollFire(r)
    \/ ~BotResumeDue /\ playEngine /\ \E t \in Reqs : TimeoutFire(t)
    \/ ~BotResumeDue /\ playEngine /\ WorkerRecv
    \/ ~BotResumeDue /\ playEngine /\ WorkerInfo
    \/ ~BotResumeDue /\ playEngine /\ WorkerDone
    \/ ~BotResumeDue /\ LiveEvalFire
    \/ ~BotResumeDue /\ OnDrop
    \/ ~BotResumeDue /\ BotTimerFire
    \/ ~BotResumeDue /\ Resign

SpecPlay == Init /\ [][PlayNext]_vars

\* ------------------------------------------------------------ analyzeFullGame run again
\* One Engine, one loaded game, one depth: a live evaluation may be requested
\* before the first analysis, and analyzeFullGame is then run and, when it
\* has returned, run again.  The oracle answers every search it is let to
\* finish with the same lines, within the 10 s of the safety timeout.
RerunGames == Games \cup {<<"m">>}

RerunLoad ==
    /\ Len(sans) = 0
    /\ \E g \in RerunGames :
         LET t == LoadPGN(g) IN
           /\ fens' = t.fens
           /\ sans' = t.sans
           /\ squares' = t.squares
           /\ idx' = t.idx
           /\ classifications' = t.classifications
    /\ UNCHANGED <<engineVars, appVars, playVars>>

\* engine.evaluate(logic.fen(), depth), before any analysis.
RerunLive ==
    /\ Len(sans) > 0
    /\ aFens = <<>>
    /\ nextReq <= MaxClientReq
    /\ nextReq' = nextReq + 1
    /\ Evaluate(nextReq, CurrentFen)
    /\ UNCHANGED <<worker, uciTimer, ready, fromWorker, wFen, wSearch, wInfo, stops>>
    /\ UNCHANGED <<updates, wNoise, logicVars, appVars, playVars>>

\* classifications = await analyzeFullGame(engine, logic, depth)
RerunStart ==
    /\ Len(sans) > 0
    /\ aState = "idle"
    /\ ~isAnalyzing
    /\ aFens' = fens
    /\ aNumMoves' = Len(sans)
    /\ aDepth' = depthSel
    /\ Continue(fens, Len(sans), depthSel, <<>>, <<>>, <<>>, <<>>)
    /\ UNCHANGED <<autoTimers, depthSel, btnRunAnalysis, gestures, loads, loadResult, playVars>>

\* The search in progress reaches its depth, after its progress lines.
RerunWorkerDone ==
    /\ wInfo = MaxInfo
    /\ WorkerDone

RerunNext ==
    \/ AnalysisResume
    \/ ~ResumeDue /\ UciTimerFire
    \/ ~ResumeDue /\ OnMessage
    \/ ~ResumeDue /\ \E r \in Reqs : PollFire(r)
    \/ ~ResumeDue /\ WorkerRecv
    \/ ~ResumeDue /\ WorkerInfo
    \/ ~ResumeDue /\ RerunWorkerDone
    \/ ~ResumeDue /\ RerunLoad
    \/ ~ResumeDue /\ RerunLive
    \/ ~ResumeDue /\ RerunStart

SpecRerun == Init /\ [][RerunNext]_vars

\* ------------------------------------------------------------ properties
\* C1: a promise resolved through the bestmove path is resolved by the
\* bestmove of the search that its own evalAsync() call started, never by the
\* bestmove that ends an earlier search.
C1_OwnBestmoveOnly ==
    \A r \in Reqs : resolvedBy[r] = "bestmove" => resolvedTag[r] = r

\* C2: the resolve function of every promise returned by evalAsync() is called
\* at most once, whatever bestmove lines, timeouts and further calls follow.
C2_ResolvedAtMostOnce ==
    \A r \in Reqs : resolveCalls[r] <= 1

\* Two promises are resolved, one by a timeout and one by a bestmove line,
\* and stop() was called too.
C2_Witness ==
    \E r, q \in Reqs :
        /\ resolvedBy[r] = "timeout"
        /\ resolvedBy[q] = "bestmove"
        /\ stops > 0

\* C3: every promise returned by evalAsync() is eventually resolved, also when
\* the oracle never ends a search.  Stated for a worker that started, which is
\* the case the hard timeout is for.
C3_EveryPromiseResolves ==
    \A r \in Reqs :
        [](promise[r] = "pending" /\ worker = "ok" => <>(promise[r] = "resolved"))

\* C4: handling a progress line resolves no promise.
C4_InfoNeverResolves ==
    [][(fromWorker # <<>> /\ Head(fromWorker).type = "info" /\ fromWorker' = Tail(fromWorker))
         => (promise' = promise /\ resolveCalls' = resolveCalls)]_vars

\* A progress line of an awaited search was handled and its promise is pending.
C4_Witness ==
    /\ resolveEval # 0
    /\ isAsyncSearch
    /\ promise[resolveEval] = "pending"
    /\ currentDepth > 0

\* C5: a request issued before the session is ready is not sent early (its
\* 'position' and 'go' are posted only in a step that finds ready true) and is
\* not dropped (once the session is ready they are eventually posted).
C5_QueuedUntilReady ==
    /\ [][\A r \in Reqs : (posted'[r] /\ ~posted[r]) => ready]_vars
    /\ \A r \in Reqs : [](polls[r] = "running" /\ ready => <>posted[r])

\* Requests of both modes waited for readiness and were posted after it.
C5_Witness ==
    \E r, q \in Reqs :
        /\ reqKind[r] = "evaluate" /\ polls[r] = "cleared" /\ posted[r]
        /\ reqKind[q] = "async" /\ polls[q] = "cleared" /\ posted[q]

\* C6: evaluate() is never called while a promise of evalAsync() is pending.
C6_ModesNeverOverlap ==
    [][\A r \in Reqs :
          (reqKind[r] = "none" /\ reqKind'[r] = "evaluate")
             => \A q \in Reqs : promise[q] # "pending"]_vars

\* The positions of the captured game that are not terminal, in order.
RECURSIVE NonTerminal(_, _)
NonTerminal(fs, i) ==
    IF i >= Len(fs) THEN <<>>
    ELSE IF GameOver(fs[i + 1]) THEN NonTerminal(fs, i + 1)
         ELSE <<i>> \o NonTerminal(fs, i + 1)

\* C7: analyzeFullGame asks the oracle about each non-terminal position once,
\* about no terminal position, in increasing index, with at most one promise
\* pending at any time; when it is done it has asked about all of them.
C7_OneRequestPerPosition ==
    /\ Cardinality({r \in Reqs : promise[r] = "pending"}) <= 1
    /\ \A k \in 1..Len(aAsked) :
          /\ ~GameOver(aFens[aAsked[k] + 1])
          /\ k > 1 => aAsked[k - 1] < aAsked[k]
    /\ (aState = "await" => aAsked = NonTerminal(SubSeq(aFens, 1, Len(aEvals) + 1), 0))
    /\ (aState = "idle" /\ aFens # <<>> => aAsked = NonTerminal(aFens, 0))

\* An analysis of a game that ends in checkmate is done: two positions were
\* asked about and the third was not.
C7_Witness ==
    /\ aState = "idle"
    /\ outcome = "published"
    /\ Len(aFens) = 3
    /\ GameOver(aFens[3])
    /\ aAsked = <<0, 1>>

\* C8: when a full analysis publishes, the timeline has one classification per
\* move, the positions that were evaluated are those of the loaded game, and
\* classification m is about move m of the loaded game.
C8_PublishedMatchesTimeline ==
    [][(aState = "await" /\ aState' = "idle" /\ outcome' = "published")
         => /\ Len(fens') = Len(sans') + 1
            /\ Len(classifications') = Len(sans')
            /\ aFens = fens'
            /\ \A m \in 1..Len(classifications') :
                  /\ m <= Len(squares')
                  /\ classifications'[m].from = squares'[m].from
                  /\ classifications'[m].to = squares'[m].to]_vars

\* C9: when the worker failed to start, an evaluation that is requested ends:
\* its promise does not stay pending forever.
C9_FailureSurfaces ==
    \A r \in Reqs :
        [](promise[r] = "pending" /\ worker = "null" => <>(promise[r] # "pending"))

\* C10: a loadPGN() that fails leaves fens, sans, squares, idx and
\* classifications as they were.
C10_FailedLoadKeepsTimeline ==
    [][(loads' # loads /\ loadResult' = "failed")
         => UNCHANGED <<fens, sans, squares, idx, classifications>>]_vars

\* C11: after any sequence of loadPGN, reset and cursor methods the cursor
\* is an index of fens, and goTo(i) with i out of range leaves it where it was.
C11_CursorInRange ==
    /\ idx \in 0..(Len(fens) - 1)
    /\ \A i \in GoToArgs : (i < 0 \/ i > Len(fens) - 1) => GoToIdx(i) = idx
    /\ \A i \in GoToArgs : GoToIdx(i) \in 0..(Len(fens) - 1)

\* The cursor is inside a loaded game, neither at its start nor at its end.
C11_Witness ==
    /\ Len(fens) = MaxMoves + 1
    /\ idx > 0
    /\ idx < Len(fens) - 1

\* C12: for a position whose side to move is checkmated analyzeFullGame
\* records isMate with the score -100 pawns when White is to move and +100
\* when Black is, for any other finished position the score 0 without isMate;
\* for both it records no best move and asks the oracle nothing.
C12_TerminalEvaluation ==
    \A i \in 1..Len(aEvals) :
        GameOver(aFens[i]) =>
            /\ aBestMoves[i] = ""
            /\ \A k \in 1..Len(aAsked) : aAsked[k] # i - 1
            /\ IF InCheckmate(aFens[i])
               THEN /\ aEvals[i].isMate
                    /\ aEvals[i].score = IF WhiteToMove(aFens[i]) THEN -10000 ELSE 10000
               ELSE /\ ~aEvals[i].isMate
                    /\ aEvals[i].score = 0

\* An analysis is done whose game ends with White checkmated.
C12_Witness ==
    /\ outcome = "published"
    /\ InCheckmate(Last(aFens))
    /\ WhiteToMove(Last(aFens))
    /\ Len(aEvals) = Len(aFens)

\* The result the stubbed evalAsync has just resolved with.
StubResult ==
    [depth |-> currentDepth', score |-> currentScore', isMate |-> currentIsMate',
     bestMove |-> currentBestMove', pv |-> currentPv']

\* The awaited result arrives and is recorded.
StubRecorded == aState = "await" /\ Len(aEvals') > Len(aEvals)

\* C13 as stated: the evaluation recorded for a non-terminal position has the
\* oracle's score when White is to move and its negation when Black is, and
\* the oracle's mate flag, PV and best move unchanged.
C13_PassedThroughUnchanged ==
    [][StubRecorded =>
         LET k == Len(aEvals) + 1 IN
           /\ ~GameOver(aFens[k])
           /\ aEvals'[k].score = IF WhiteToMove(aFens[k]) THEN StubResult.score
                                                           ELSE -StubResult.score
           /\ aEvals'[k].isMate = StubResult.isMate
           /\ aEvals'[k].pv = StubResult.pv
           /\ aBestMoves'[k] = StubResult.bestMove]_vars

\* C13 amended: the score is the oracle's for White to move and its negation
\* for Black, mate flag and best move are the oracle's, and the PV is the
\* oracle's when the result has one; a result without PV (null) is recorded
\* with the empty PV ''.
C13_NormalizedEvaluation ==
    [][StubRecorded =>
         LET k == Len(aEvals) + 1 IN
           /\ ~GameOver(aFens[k])
           /\ aEvals'[k].score = IF WhiteToMove(aFens[k]) THEN StubResult.score
                                                           ELSE -StubResult.score
           /\ aEvals'[k].isMate = StubResult.isMate
           /\ aEvals'[k].pv = (IF StubResult.pv = NullPv THEN <<>> ELSE StubResult.pv)
           /\ aBestMoves'[k] = StubResult.bestMove]_vars

\* A Black-to-move position got a non-zero score and a result without PV.
C13_Witness ==
    \E i \in 1..Len(aEvals) :
        /\ ~GameOver(aFens[i])
        /\ ~WhiteToMove(aFens[i])
        /\ aEvals[i].raw # 0
        /\ aEvals[i].score = -aEvals[i].raw
        /\ aEvals[i].pv = <<>>

\* The White-perspective score of the recorded evaluation i (from 1) with a
\* mate score taken as +100 or -100 pawns by its sign.
ByMateSign(i) ==
    IF ~aEvals[i].isMate THEN aEvals[i].score
    ELSE IF aEvals[i].score > 0 THEN 10000 ELSE -10000

\* What the mover of half-move m (from 1) lost of their own advantage.
MoverDrop(m) ==
    IF squares[m].color = "w"
    THEN ByMateSign(m) - ByMateSign(m + 1)
    ELSE (-ByMateSign(m)) - (-ByMateSign(m + 1))

\* C14: cpLoss of a White move is scoreBefore - scoreAfter and of a Black
\* move scoreAfter - scoreBefore, on White-perspective scores with mate
\* scores taken as +100/-100 by sign; it is positive exactly when the mover's
\* own advantage dropped, and a White and a Black move that drop it by the
\* same amount have the same cpLoss.
C14_CpLossConvention ==
    outcome = "published" =>
        /\ \A m \in 1..Len(classifications) :
              /\ classifications[m].evalBefore = ByMateSign(m)
              /\ classifications[m].evalAfter = ByMateSign(m + 1)
              /\ classifications[m].cpLoss =
                    IF squares[m].color = "w" THEN ByMateSign(m) - ByMateSign(m + 1)
                                              ELSE ByMateSign(m + 1) - ByMateSign(m)
              /\ classifications[m].cpLoss > 0 <=> MoverDrop(m) > 0
        /\ \A m, n \in 1..Len(classifications) :
              MoverDrop(m) = MoverDrop(n) => classifications[m].cpLoss = classifications[n].cpLoss

\* A published analysis where a White move ran into a forced mate and the
\* Black move after it gave the mate away: both lost the same positive amount.
C14_Witness ==
    /\ outcome = "published"
    /\ \E m, n \in 1..Len(classifications) :
          /\ squares[m].color = "w"
          /\ squares[n].color = "b"
          /\ aEvals[m + 1].isMate
          /\ ~GameOver(aFens[m + 1])
          /\ classifications[m].cpLoss = 10000
          /\ classifications[m].cpLoss = classifications[n].cpLoss

\* The tiers in the order of CLASSIFICATION, the best one highest.
TierRank(key) ==
    CASE key = "brilliant"  -> 8
      [] key = "great"      -> 7
      [] key = "best"       -> 6
      [] key = "good"       -> 5
      [] key = "book"       -> 4
      [] key = "inaccuracy" -> 3
      [] key = "mistake"    -> 2
      [] key = "blunder"    -> 1

\* Values of cpLoss a half-move is compared with.
CpLosses == Scores \cup {-10000, 10000}

\* The tier half-move m (from 1) would have got with the loss c, its index
\* and its engine-best match as they are.
TierWith(m, c) == Tier(m - 1, c, squares[m], aBestMoves[m])

\* Both losses are in the Book window of the index of half-move m, or none is.
SameBookSide(m, c1, c2) ==
    (m - 1 < 6 /\ c1 > -50 /\ c1 < 50) <=> (m - 1 < 6 /\ c2 > -50 /\ c2 < 50)

\* C15 as stated: for a fixed half-move index and engine-best match, a
\* smaller cpLoss never gets a worse tier, in the order Brilliant > Great >
\* Best > Good > Book > Inaccuracy > Mistake > Blunder.
C15_MonotonicInCpLoss ==
    outcome = "published" =>
        \A m \in 1..Len(classifications) : \A c \in CpLosses :
            /\ c <= classifications[m].cpLoss
                  => TierRank(TierWith(m, c)) >= TierRank(classifications[m].key)
            /\ c >= classifications[m].cpLoss
                  => TierRank(TierWith(m, c)) <= TierRank(classifications[m].key)

\* C15 amended: the same, for two losses that are both classified Book or
\* both not (the index is 6 or more, or both are within +-0.5, or none is).
C15_MonotonicOffBook ==
    outcome = "published" =>
        \A m \in 1..Len(classifications) : \A c \in CpLosses :
            SameBookSide(m, c, classifications[m].cpLoss) =>
                /\ c <= classifications[m].cpLoss
                      => TierRank(TierWith(m, c)) >= TierRank(classifications[m].key)
                /\ c >= classifications[m].cpLoss
                      => TierRank(TierWith(m, c)) <= TierRank(classifications[m].key)

\* A published analysis with a half-move of the first six that lost more
\* than the Book window allows and got Good.
C15_Witness ==
    /\ outcome = "published"
    /\ \E m \in 1..Len(classifications) :
          /\ m - 1 < 6
          /\ classifications[m].key = "good"
          /\ classifications[m].cpLoss > 50

\* The squares a coordinate move of the oracle names (a fifth letter is the
\* piece a pawn promotes to).
LanSquares(lan) ==
    CASE lan = "e2e4"  -> [from |-> "e2", to |-> "e4"]
      [] lan = "e7e5"  -> [from |-> "e7", to |-> "e5"]
      [] lan = "e7e8q" -> [from |-> "e7", to |-> "e8"]
      [] OTHER         -> [from |-> "", to |-> ""]

\* Half-move m (from 1) was played from and to the squares of the engine-best
\* move recorded for the position before it.
PlayedEngineBest(m) ==
    /\ aBestMoves[m] # ""
    /\ squares[m].from = LanSquares(aBestMoves[m]).from
    /\ squares[m].to = LanSquares(aBestMoves[m]).to

\* C16: a half-move played from and to the squares of the recorded
\* engine-best move is classified Best, Great or Brilliant, whatever its
\* cpLoss and index, promotions included.
C16_EngineBestNeverBelowBest ==
    outcome = "published" =>
        \A m \in 1..Len(classifications) :
            PlayedEngineBest(m) => classifications[m].key \in {"best", "great", "brilliant"}

\* The same for half-moves that are not classified Book.
EngineBestOffBookNeverBelowBest ==
    outcome = "published" =>
        \A m \in 1..Len(classifications) :
            PlayedEngineBest(m) /\ classifications[m].key # "book"
                => classifications[m].key \in {"best", "great", "brilliant"}

\* C17: the half-move with index m is classified Book exactly if m < 6 and
\* |cpLoss| < 0.5; so is index 5 whenever |cpLoss| < 0.5, and index 6 never.
C17_BookWindow ==
    outcome = "published" =>
        \A m \in 1..Len(classifications) :
            classifications[m].key = "book"
                <=> /\ m - 1 < 6
                    /\ classifications[m].cpLoss > -50
                    /\ classifications[m].cpLoss < 50

\* A published analysis of seven half-moves or more: index 5 lost 0.49 and is Book,
\* index 6 lost nothing and is not.
C17_Witness ==
    /\ outcome = "published"
    /\ Len(classifications) >= 7
    /\ classifications[6].cpLoss = 49
    /\ classifications[6].key = "book"
    /\ classifications[7].cpLoss = 0
    /\ classifications[7].key # "book"

\* C18: a half-move that is neither Book nor an engine-best match has the
\* tier of the ladder on cpLoss: <= -2.0 Brilliant, <= -1.0 Great, <= 0.4
\* Best, <= 1.2 Good, <= 2.5 Inaccuracy, <= 5.0 Mistake, else Blunder; a
\* boundary value has the better tier.
C18_ThresholdLadder ==
    outcome = "published" =>
        \A m \in 1..Len(classifications) :
            LET c == classifications[m].cpLoss
                matched == /\ aBestMoves[m] # ""
                           /\ (squares[m].from \o squares[m].to) = aBestMoves[m]
            IN  classifications[m].key # "book" /\ ~matched =>
                  classifications[m].key =
                      CASE c <= -200 -> "brilliant"
                        [] c > -200 /\ c <= -100 -> "great"
                        [] c > -100 /\ c <= 40 -> "best"
                        [] c > 40 /\ c <= 120 -> "good"
                        [] c > 120 /\ c <= 250 -> "inaccuracy"
                        [] c > 250 /\ c <= 500 -> "mistake"
                        [] c > 500 -> "blunder"

\* A published analysis with a half-move that is no engine-best match, lost
\* exactly 1.2 and is Good.
C18_Witness ==
    /\ outcome = "published"
    /\ \E m \in 1..Len(classifications) :
          /\ aBestMoves[m] = ""
          /\ classifications[m].cpLoss = 120
          /\ classifications[m].key = "good"

\* C20: the list analyzeFullGame returned, serialized to the cache and
\* parsed back, is the same list: the same records with the same fields and
\* values, also for half-moves out of or into finished positions.
C20_CacheRoundTrip ==
    outcome = "published" =>
        /\ Cached(CacheKey(aDepth, Last(aFens)))
        /\ JsonParse(CachedValue(CacheKey(aDepth, Last(aFens)))) = classifications

\* The same for games none of whose half-moves leaves a finished position.
RoundTripOfUnfinishedPositions ==
    (outcome = "published" /\ \A m \in 1..Len(classifications) : ~GameOver(aFens[m])) =>
        /\ Cached(CacheKey(aDepth, Last(aFens)))
        /\ JsonParse(CachedValue(CacheKey(aDepth, Last(aFens)))) = classifications

\* C19: an analysis that is run when one of the same game at the same depth
\* has returned its list on the same Engine returns the same list.
C19_RerunGivesSameList ==
    [][(/\ aState = "await" /\ aState' = "idle"
        /\ outcome = "published" /\ outcome' = "published"
        /\ aFens = fens /\ aDepth = depthSel)
         => classifications' = classifications]_vars

\* The same when no live evaluation was requested before the first analysis.
RerunWithoutLiveGivesSameList ==
    [][(/\ aState = "await" /\ aState' = "idle"
        /\ outcome = "published" /\ outcome' = "published"
        /\ \A r \in Reqs : reqKind[r] # "evaluate")
         => classifications' = classifications]_vars

\* The entries the cache holds for a depth and a move sequence.
EntriesFor(depth, moves) == {e \in cache : e.key = <<depth, moves>>}

\* C21: runFullAnalysis reads the cache before it computes and writes after:
\* a run that finds an entry for (depth, moves) issues no oracle request and
\* publishes the parsed entry; a run that starts computing found no entry,
\* and when it publishes, the list is the one computed, it is stored under
\* the key built at the start or (the store failed) not stored, and the run
\* ends published in both cases.
C21_CacheReadThenWrite ==
    [][/\ (aState = "idle" /\ aState' = "await")
            => EntriesFor(aDepth', sans) = {}
       /\ (/\ outcome' = "cached"
           /\ \/ outcome # "cached"
              \/ classifications' # classifications /\ classifications' # <<>>)
            => /\ \E e \in EntriesFor(depthSel', sans) : classifications' = JsonParse(e.val)
               /\ nextReq' = nextReq
               /\ toWorker' = toWorker
               /\ cache' = cache
       /\ (aState = "await" /\ aState' = "idle" /\ outcome' = "published")
            => /\ classifications' = Classified(aFens, aNumMoves, aEvals', aBestMoves')
               /\ \/ cache' = cache
                  \/ cache' = cache \cup {[key |-> <<aDepth, Last(aFens)>>,
                                            val |-> JsonStringify(classifications')]}
               /\ ~isAnalyzing']_vars

\* A run has published the entry an earlier run stored.
C21_Witness ==
    /\ outcome = "cached"
    /\ Len(classifications) > 0
    /\ EntriesFor(depthSel, sans) # {}

\* A run has published its list and the store failed.
C21_WitnessStoreFailed ==
    /\ outcome = "published"
    /\ aState = "idle"
    /\ Len(classifications) > 0
    /\ cache = {}

\* matDiff of the published record m, from its own members.
RecordMatDiff(m) ==
    IF squares[m].color = "w"
    THEN classifications[m].matAfter - classifications[m].matBefore
    ELSE classifications[m].matBefore - classifications[m].matAfter

\* C22: a half-move with cpLoss > 1.2 that leaves a bishop of the mover to
\* be captured on the next move is tagged hanging_piece; and with cpLoss >
\* 1.2, matDiff <= -3 gives hanging_piece and -3 < matDiff < 0 gives
\* lost_material, never both.
C22_HangingPieceTagged ==
    outcome = "published" =>
        \A m \in 1..Len(classifications) :
            LET tags == classifications[m].tags IN
            /\ (sans[m] = "h" /\ classifications[m].cpLoss > 120)
                  => "hanging_piece" \in tags
            /\ (classifications[m].cpLoss > 120 /\ RecordMatDiff(m) <= -3)
                  => "hanging_piece" \in tags
            /\ (classifications[m].cpLoss > 120 /\ RecordMatDiff(m) > -3 /\ RecordMatDiff(m) < 0)
                  => "lost_material" \in tags
            /\ ~("hanging_piece" \in tags /\ "lost_material" \in tags)

\* No half-move has a negative matDiff, and none is tagged hanging_piece or
\* lost_material.
MatDiffNeverNegative ==
    outcome = "published" =>
        \A m \in 1..Len(classifications) :
            /\ RecordMatDiff(m) >= 0
            /\ classifications[m].tags \cap {"hanging_piece", "lost_material"} = {}

\* The mover of half-move m (from 1) had a forced mate before the move, by
\* the recorded evaluation.
MateForMover(m) ==
    /\ aEvals[m].isMate
    /\ IF squares[m].color = "w" THEN aEvals[m].score > 0 ELSE aEvals[m].score < 0

\* C23 as stated: missed_mate is in the tags exactly if the evaluation before
\* the move is mate-flagged in the mover's favour and the one after it is
\* not mate-flagged; a move that delivers checkmate from such a position
\* has no missed_mate and is classified Best or better.
C23_MissedMateAndMatingMove ==
    outcome = "published" =>
        \A m \in 1..Len(classifications) :
            /\ "missed_mate" \in classifications[m].tags
                  <=> (MateForMover(m) /\ ~aEvals[m + 1].isMate)
            /\ (MateForMover(m) /\ InCheckmate(aFens[m + 1]))
                  => /\ "missed_mate" \notin classifications[m].tags
                     /\ classifications[m].key \in {"best", "great", "brilliant"}

\* C23 amended: the same, but the mating move is classified Best or better
\* when its index is 6 or more and Book when its index is below 6.
C23_MissedMateAndMatingMoveOrBook ==
    outcome = "published" =>
        \A m \in 1..Len(classifications) :
            /\ "missed_mate" \in classifications[m].tags
                  <=> (MateForMover(m) /\ ~aEvals[m + 1].isMate)
            /\ (MateForMover(m) /\ InCheckmate(aFens[m + 1]))
                  => /\ "missed_mate" \notin classifications[m].tags
                     /\ IF m - 1 < 6 THEN classifications[m].key = "book"
                        ELSE classifications[m].key \in {"best", "great", "brilliant"}

\* A published analysis of seven half-moves whose last one delivers
\* checkmate from a position with a forced mate for the mover.
C23_Witness ==
    /\ outcome = "published"
    /\ Len(classifications) = 7
    /\ MateForMover(7)
    /\ InCheckmate(aFens[8])
    /\ classifications[7].key = "best"

\* A published analysis with a half-move that let a forced mate go.
C23_WitnessMissed ==
    /\ outcome = "published"
    /\ \E m \in 1..Len(classifications) : "missed_mate" \in classifications[m].tags

\* The entries of the table whose moves are the first moves of a sequence.
MatchingEntries(moves) ==
    {COMMON_OPENINGS[k] : k \in {j \in DOMAIN COMMON_OPENINGS :
                                    StartsWith(moves, COMMON_OPENINGS[j].prefix)}}

\* The matching entry with the most moves, or null.
LongestEntry(moves) ==
    IF MatchingEntries(moves) = {} THEN NullOpening
    ELSE CHOOSE e \in MatchingEntries(moves) :
            \A f \in MatchingEntries(moves) : Len(f.prefix) <= Len(e.prefix)

\* C24: the opening of a classification is the table entry with the longest
\* prefix among those that are a prefix of the moves played up to and with
\* its half-move, or null if there is none; the last half-move of a game
\* that is an entry of the table move by move carries, when Book, that entry
\* and no shorter one.
C24_OpeningIsLongestPrefix ==
    outcome = "published" =>
        \A m \in 1..Len(classifications) :
            /\ classifications[m].opening = LongestEntry(SubSeq(sans, 1, m))
            /\ (classifications[m].key = "book" /\ m = Len(sans)
                   /\ \E k \in DOMAIN COMMON_OPENINGS : COMMON_OPENINGS[k].prefix = sans)
                  => classifications[m].opening.prefix = sans

\* The same for the classifications that are Book; any other has no opening.
OpeningOfBookIsLongestPrefix ==
    outcome = "published" =>
        \A m \in 1..Len(classifications) :
            classifications[m].opening =
                IF classifications[m].key = "book" THEN LongestEntry(SubSeq(sans, 1, m))
                ELSE NullOpening

\* No classification carries an entry of more than six moves.
LongEntriesNeverCarried ==
    \A m \in 1..Len(classifications) : Len(classifications[m].opening.prefix) <= 6

\* The step is _onMessage handling a line of no known form.
HandlesUnrecognized ==
    /\ fromWorker # <<>>
    /\ Head(fromWorker).type \in Unrecognized
    /\ Len(fromWorker') < Len(fromWorker)

\* C25: an inbound line that is not a string, or has none of the known forms
\* (uciok, readyok, a progress line with a depth and a cp or mate score,
\* bestmove), changes neither the ready flag, nor the current depth, score,
\* mate flag, best move and pv, nor any promise or its resolver, posts
\* nothing, calls no observer, and leaves the lines behind it to be handled.
C25_UnrecognizedLineIgnored ==
    /\ [][HandlesUnrecognized =>
         /\ UNCHANGED <<ready, currentDepth, currentScore, currentIsMate, currentBestMove,
                        currentPv>>
         /\ UNCHANGED <<promise, resolveCalls, result, resolveEval, isAsyncSearch,
                        evalTimeout, timers>>
         /\ UNCHANGED <<updates, toWorker>>
         /\ fromWorker' = Tail(fromWorker)]_vars
    /\ [](fromWorker # <<>> => ENABLED OnMessage)

\* Every line of no known form the worker emitted was handled, and so were a
\* progress line, which reached the observer, and a terminating line, which
\* resolved a promise with the depth reported.
C25_Witness ==
    /\ wNoise = MaxNoise
    /\ fromWorker = <<>>
    /\ updates # <<>>
    /\ \E r \in Reqs : resolvedBy[r] = "bestmove" /\ result[r].depth > 0

\* C26: a single-shot result produced by the deadline can be told from one
\* produced by the terminating signal: no two promises, one resolved by the
\* timer and one by a 'bestmove' line, hold the same value.
C26_TimeoutResultFlagged ==
    \A r, q \in Reqs :
        resolvedBy[r] = "timeout" /\ resolvedBy[q] = "bestmove" => result[r] # result[q]

\* The updates the observer received for the search of request r, in order.
UpdatesOf(r) == SelectSeq(updates, LAMBDA u : u.tag = r)

\* C27: the depths of the updates the observer receives for one
\* fire-and-forget request never decrease, whatever the order in which the
\* oracle emits the progress lines.
C27_UpdatesInDepthOrder ==
    \A r \in Reqs :
        \A i, j \in 1..Len(UpdatesOf(r)) :
            i < j => UpdatesOf(r)[i].depth <= UpdatesOf(r)[j].depth

\* What holds instead: the observer receives one update per progress line,
\* with the line's depth, in the order the lines arrive.
OneUpdatePerProgressLine ==
    [][fromWorker # <<>> /\ Len(fromWorker') < Len(fromWorker)
         => IF Head(fromWorker).type = "info"
            THEN /\ Len(updates') = Len(updates) + 1
                 /\ updates'[Len(updates')].depth = Head(fromWorker).depth
                 /\ SubSeq(updates', 1, Len(updates)) = updates
            ELSE updates' = updates]_vars

\* C28: during analyzeFullGame the progress callback is called once per
\* position, after that position's evaluation is recorded, as (i, total) with
\* total the number of positions and i running from 0 up to the number of
\* half-moves, for the positions that are finished and for those the oracle
\* evaluates alike.
C28_ProgressOncePerPosition ==
    aFens # <<>> =>
        /\ Len(progress) = Len(aEvals)
        /\ \A k \in 1..Len(progress) : progress[k] = <<k - 1, Len(aFens)>>
        /\ (aState = "idle" =>
               /\ Len(progress) = Len(aFens)
               /\ progress[Len(progress)][1] = aNumMoves)

\* A run has ended on a game of several half-moves whose last position is
\* finished: the last call reported that position.
C28_Witness ==
    /\ aState = "idle"
    /\ outcome = "published"
    /\ Len(aFens) >= 3
    /\ GameOver(aFens[Len(aFens)])
    /\ ~GameOver(aFens[Len(aFens) - 1])
    /\ progress[Len(aFens)] = <<Len(aFens) - 1, Len(aFens)>>

\* The commands posted and not yet read by the worker, one after the other.
RECURSIVE Commands(_)
Commands(bursts) ==
    IF bursts = <<>> THEN <<>> ELSE Head(bursts).cmds \o Commands(Tail(bursts))

\* C29: a request of either mode posts 'stop', 'position fen', 'go depth' in
\* that order with no other command between them, so that a search in progress
\* has ended (its 'bestmove' line is emitted) when the worker starts the new one.
C29_SearchPostedInOrder ==
    [][/\ \A r \in Reqs :
            ~posted[r] /\ posted'[r] =>
                /\ Commands(toWorker') = Commands(toWorker) \o <<"stop", "position", "go">>
                /\ toWorker'[Len(toWorker')].req = r
       /\ (wSearch # 0 /\ wSearch' # 0 /\ wSearch' # wSearch) =>
            \E k \in (Len(fromWorker) + 1)..Len(fromWorker') :
                fromWorker'[k].type = "bestmove" /\ fromWorker'[k].tag = wSearch]_vars

\* A request of each mode was posted, and the worker runs the search of the
\* second with the terminating line of the first emitted.
C29_Witness ==
    /\ posted[1] /\ posted[2]
    /\ reqKind[1] # reqKind[2]
    /\ wSearch = 2
    /\ \E k \in DOMAIN fromWorker : fromWorker[k].type = "bestmove" /\ fromWorker[k].tag = 1

\* The state of the session: Uninitialized until 'uci' is posted, Initializing
\* until ready is set.
Phase ==
    IF ready THEN "Ready"
    ELSE IF worker = "ok" /\ ~uciTimer THEN "Initializing"
    ELSE "Uninitialized"

\* The step is _onMessage handling a line of type t.
Handles(t) ==
    /\ fromWorker # <<>>
    /\ Head(fromWorker).type = t
    /\ fromWorker' = Tail(fromWorker)

\* The commands the step posts.
NewCommands == SubSeq(Commands(toWorker'), Len(Commands(toWorker)) + 1, Len(Commands(toWorker')))

RECURSIVE LatestPv(_)
LatestPv(us) ==
    IF us = <<>> THEN <<>>
    ELSE IF us[Len(us)].pv # <<>> THEN us[Len(us)].pv
    ELSE LatestPv(SubSeq(us, 1, Len(us) - 1))

\* C31: the bestMove of a single-shot result is the first token of the pv of
\* the latest progress line of its search when a pv was present; only when
\* none was is it the move of the terminating line; and it is never '(none)'.
C31_BestMoveFromPvFirst ==
    [][\A r \in Reqs :
          promise[r] = "pending" /\ promise'[r] = "resolved" =>
              /\ result'[r].bestMove # "(none)"
              /\ LatestPv(UpdatesOf(r)) # <<>> =>
                     result'[r].bestMove = FirstToken(LatestPv(UpdatesOf(r)))]_vars

\* What holds instead: the move of the terminating line, when it names one,
\* is the bestMove whatever the pv was; '(none)' never is.
BestMoveFromTerminatingLineFirst ==
    [][\A r \in Reqs :
          promise[r] = "pending" /\ promise'[r] = "resolved" =>
              /\ result'[r].bestMove # "(none)"
              /\ (Handles("bestmove") /\ Head(fromWorker).bm # "(none)") =>
                     result'[r].bestMove = Head(fromWorker).bm]_vars

\* C34: a promise that the 10 s timer resolves is resolved by the timer that
\* its own evalAsync() call installed, never by the timer of an earlier call.
C34_OwnTimerOnly ==
    \A r \in Reqs : resolvedBy[r] = "timeout" => resolvedTag[r] = r

\* The progress lines of the search of request r that were handled.
OwnLines(r) == {UpdatesOf(r)[k] : k \in 1..Len(UpdatesOf(r))}

\* C35: the depth, score and mate flag of a single-shot result are those of a
\* progress line of its own search or the reset defaults, its pv is the pv of
\* such a line or null, and its bestMove is the first move of such a pv, the
\* move of the terminating line or null: nothing is left from an earlier search.
C35_NoFieldFromEarlierSearch ==
    \A r \in Reqs :
        promise[r] = "resolved" =>
            /\ \/ <<result[r].depth, result[r].score, result[r].isMate>> = <<0, 0, FALSE>>
               \/ \E u \in OwnLines(r) :
                      <<result[r].depth, result[r].score, result[r].isMate>>
                          = <<u.depth, u.score, u.isMate>>
            /\ \/ result[r].pv = NullPv
               \/ \E u \in OwnLines(r) : u.pv # <<>> /\ result[r].pv = u.pv
            /\ \/ result[r].bestMove = ""
               \/ \E u \in OwnLines(r) : u.pv # <<>> /\ result[r].bestMove = FirstToken(u.pv)
               \/ resolvedBy[r] = "bestmove"

\* What holds instead: the fields that waitReady resets carry nothing older
\* than the request; the pv is left as the last search that reported one set it.
OnlyPvFromEarlierSearch ==
    [][\A r \in Reqs :
          (reqKind'[r] = "async" /\ ~posted[r] /\ posted'[r]) =>
              /\ <<currentDepth', currentScore', currentIsMate', currentBestMove'>>
                     = <<0, 0, FALSE, "">>
              /\ currentPv' = currentPv]_vars

\* C36: the material delta of every half-move of an analysed game, taken
\* from the balances of the positions before and after it and seen from the
\* mover, is not negative.
C36_MatDiffNonNegative ==
    outcome = "published" =>
        \A m \in 1..Len(classifications) :
            MatDiff(squares[m].color, classifications[m].matBefore,
                    classifications[m].matAfter) >= 0

\* Black's capture of a bishop is published with a delta of 3.
C36_Witness ==
    /\ outcome = "published"
    /\ \E m \in 1..Len(classifications) :
         /\ sans[m] = "x"
         /\ squares[m].color = "b"
         /\ classifications[m].matAfter - classifications[m].matBefore = -3

\* C37: missed_fork is tagged on moves by White only; for a move by Black,
\* cpLoss > 1.2 and scoreBefore - scoreAfter > 2.0 do not hold together.
C37_MissedForkWhiteOnly ==
    outcome = "published" =>
        \A m \in 1..Len(classifications) :
            LET c == classifications[m] IN
            /\ "missed_fork" \in c.tags => squares[m].color = "w"
            /\ squares[m].color = "b" => ~(c.cpLoss > 120 /\ c.evalBefore - c.evalAfter > 200)

\* White passes over a knight move and loses 2.01 pawns, tagged missed_fork;
\* Black then does the same and is not tagged.
C37_Witness ==
    /\ outcome = "published"
    /\ Len(classifications) = 2
    /\ "missed_fork" \in classifications[1].tags
    /\ squares[2].color = "b"
    /\ aBestMoves[2] = "g8f6"
    /\ classifications[2].cpLoss > 200
    /\ "missed_fork" \notin classifications[2].tags

\* C33: a move after which the first move of the oracle's principal
\* variation captures a piece on the resulting position is tagged
\* ignored_threat.
C33_IgnoredThreatTagged ==
    outcome = "published" =>
        \A m \in 1..Len(classifications) :
            (/\ aEvals[m + 1].pv \notin {<<>>, UndefinedPv}
             /\ IsCaptureOn(aFens[m + 1], FirstToken(aEvals[m + 1].pv)))
                => "ignored_threat" \in classifications[m].tags

\* What holds instead: no move is tagged ignored_threat, since no move in
\* coordinate notation has the letter x.
IgnoredThreatNeverTagged ==
    outcome = "published" =>
        \A m \in 1..Len(classifications) : "ignored_threat" \notin classifications[m].tags

\* The mover of the published half-move m was more than 3 pawns worse before
\* the move.
MoverWorseByThree(m) ==
    IF squares[m].color = "w" THEN classifications[m].evalBefore < -300
                              ELSE classifications[m].evalBefore > 300

\* C32: a capture whose material delta is 0 is tagged bad_trade when the
\* mover was more than 3 pawns worse before it and allowed_trade otherwise,
\* and no move is tagged with both.
C32_TradeQuality ==
    outcome = "published" =>
        \A m \in 1..Len(classifications) :
            LET tags == classifications[m].tags IN
            /\ (sans[m] = "x" /\ RecordMatDiff(m) = 0)
                  => IF MoverWorseByThree(m) THEN "bad_trade" \in tags
                                             ELSE "allowed_trade" \in tags
            /\ ~("bad_trade" \in tags /\ "allowed_trade" \in tags)

\* What holds instead: no move is tagged bad_trade, and a trade is tagged
\* at all only with cpLoss > 1.2.
BadTradeNeverTagged ==
    outcome = "published" =>
        \A m \in 1..Len(classifications) :
            /\ "bad_trade" \notin classifications[m].tags
            /\ "allowed_trade" \in classifications[m].tags
                  => (sans[m] = "x" /\ RecordMatDiff(m) = 0 /\ classifications[m].cpLoss > 120)

\* A capture is published with a material delta of 0 by a mover who was 3.5
\* pawns worse and lost 1.5 more: it is tagged allowed_trade.
TradeReached ==
    /\ outcome = "published"
    /\ \E m \in 1..Len(classifications) :
         /\ sans[m] = "x"
         /\ RecordMatDiff(m) = 0
         /\ MoverWorseByThree(m)
         /\ classifications[m].cpLoss > 120
         /\ "allowed_trade" \in classifications[m].tags

\* The k-th loadGame succeeded with autoAnalyze and its 500 ms timer is set,
\* on a ready session.
AutoLoaded(k) ==
    /\ loads = k
    /\ loadResult = "ok"
    /\ ready
    /\ autoTimers # <<>>
    /\ Last(autoTimers) = "analysis"

\* C38: after a loadGame that succeeds with autoAnalyze on a ready session,
\* logic.classifications eventually holds one classification per move of the
\* loaded game (unless another game is loaded first), also when an analysis
\* was running at the load.
C38_LoadedGameGetsClassified ==
    \A k \in 1..MaxGestures :
        AutoLoaded(k) ~> \/ Len(classifications) = Len(sans)
                         \/ loads > k

\* What holds instead: a game loaded while no analysis is running gets its
\* classifications.
LoadedWhenIdleGetsClassified ==
    \A k \in 1..MaxGestures :
        (AutoLoaded(k) /\ ~isAnalyzing)
            ~> \/ Len(classifications) = Len(sans)
               \/ loads > k

\* C39: the move that makeBotMove's callback applies is the oracle's move
\* for the position its request was about, and when the callback has set
\* isPlayerTurn it is the player's colour that is to move on the board.
C39_BotMoveIsForItsPosition ==
    [][(botReq # 0 /\ botReq' = 0 /\ isGameActive /\ result[botReq].bestMove # "")
          => /\ result[botReq].bestMove = OracleBest(reqFen[botReq])
             /\ isPlayerTurn' => Turn(playLogic') = playerColor]_vars

\* What holds instead: the same of a bot move whose request was the first
\* search posted to the play Engine.
FirstSearchIsForItsPosition ==
    [][(/\ botReq # 0 /\ botReq' = 0 /\ isGameActive /\ result[botReq].bestMove # ""
        /\ \A r \in 1..(botReq - 1) : ~posted[r])
          => /\ result[botReq].bestMove = OracleBest(reqFen[botReq])
             /\ isPlayerTurn' => Turn(playLogic') = playerColor]_vars

\* The player has moved, a live evaluation was in flight when the bot's
\* request was made, and the bot's callback has run.
BotMovedAfterLiveEval ==
    /\ playerColor = "w"
    /\ Len(playLogic) >= 1
    /\ isPlayerTurn
    /\ reqKind[1] = "evaluate"
    /\ reqKind[2] = "async"
    /\ promise[2] = "resolved"
    /\ botReq = 0


============================================================================
